---- MODULE Spec2Model ----
(***************************************************************************)
(* A model of the deployment orchestrator of ekspressjs: deployToEKS       *)
(* (src/src/deploy.ts) and the wait loops of src/src/aws-utils.ts.         *)
(*                                                                         *)
(* Spec        the pipeline deployToEKS, step by step, with the controller *)
(*             webhook wait and the manifest applies inside it.            *)
(* SpecIngress one call of waitForIngressAndSetupDNS: the load balancer    *)
(*             wait loop, the certificate status handling, the DNS record. *)
(* SpecIdem    two runs in succession of the steps that create resources   *)
(*             for the domain: setupDomain and waitForIngressAndSetupDNS.  *)
(* SpecApply   one call of applyWithRetry with its clock.                  *)
(* SpecProbes  the readiness probes applied to a cluster snapshot.         *)
(***************************************************************************)
EXTENDS Integers, Sequences, FiniteSets, TLC

VARIABLES
    \* ---- deployToEKS (deploy.ts) ----
    cfg,            \* the DeployConfig fields the control flow reads
    pc,             \* position of the run inside deployToEKS
    stepState,      \* per step: pending, running, completed, skipped, failed
    order,          \* the steps begun, in the order they began
    outcome,        \* running, success, failed, killed
    failedStep,     \* the step whose error left deployToEKS
    errorMsg,       \* the message of that error
    diagnosed,      \* diagnoseDeploymentFailure has been invoked
    cancelRaised,   \* an external cancellation was raised during the run
    imageUri,       \* result of buildAndPushImage: "unset", "null", "uri"
    domainSetup,    \* setupDomain was called (ACM is queried, maybe asked)
    requested,      \* what setupDomain created: certificate, DNS records
    \* ---- checkAndEnsureNodes ----
    nodeI,          \* loop counter i of the node wait loop
    nodesReadySeen, \* a probe of this call saw readyCount > 0
    \* ---- checkAndInstallALBController / waitForALBWebhookReady ----
    ctrlPath,       \* the branch checkAndInstallALBController took
    wi,             \* loop counter i of waitForALBWebhookReady
    podReady,       \* local podReady
    deploymentReady,\* local deploymentReady
    obs,            \* the cluster as it was in the returning iteration
    whResult,       \* "none", "true", "false": what the wait returned
    whScript,       \* how far the polls follow the webhook-race script
    sawAbsent,      \* a poll of this wait found a resource absent
    \* ---- applyManifests / applyWithRetry inside the pipeline ----
    awI,            \* loop counter i of applyWithRetry
    applied,        \* service.yaml or ingress.yaml has been applied (attempted)
    applyErrSeen,   \* an apply of this run failed (webhook or other error)
    \* ---- the end of deployToEKS ----
    albHost,        \* local albDNS of deployToEKS: "null" or "host"
    dnsResult,      \* how waitForIngressAndSetupDNS ended ("none": not called)
    summary,        \* which closing report was printed ("none": not yet)
    \* ---- the target namespace, a config.namespace other than default ----
    nsExists,       \* the namespace exists in the cluster
    nsAttempted,    \* kubectl create namespace has been executed in this run
    createdEarly,   \* the resources this run created in the namespace
                    \* before nsAttempted
    \* ---- the image, registry and rollout steps ----
    refused,        \* "none", or the authorization or URL error a step met
    rolloutWaits,   \* executions of kubectl rollout status
    waitFailures,   \* those that threw
    fixRuns,        \* invocations of checkAndFixImagePullError
    \* ---- setupDomain / waitForIngressAndSetupDNS (aws-utils.ts) ----
    run,            \* which run of the tool this is
    dpc,            \* position inside the domain steps
    dcfg,           \* config.domain as the user gave it
    certArn,        \* config.domain.certificateARN of this run (0: unset)
    acm,            \* ACM: the status of each certificate of the hostname
    valRecs,        \* Cloudflare: certificates with validation records
    cname,          \* Cloudflare: the CNAME record of the hostname
    albDNS,         \* local albDNS is set
    retries,        \* local retries of the load balancer wait loop
    albPolls,       \* iterations of that loop so far in this call
    certificateError, \* local certificateError
    fixApplied,     \* the certificate annotations were removed in this call
    waitLoop,       \* which validation wait loop this call entered (0: none)
    waitRetries,    \* local waitRetries of that loop
    validated,      \* local validated of that loop
    wpolls,         \* DescribeCertificate calls of that loop
    lastSeen,       \* the status its latest DescribeCertificate returned
    polledAfterTerminal, \* the loop polled again after FAILED or timed out
    newArn,         \* local newCertificateARN (0: none)
    reqThisRun,     \* RequestCertificate calls of this run
    reqRun1,        \* RequestCertificate calls of the first run
    extChange,      \* a status changed in ACM after the first run ended
    httpsCmds,      \* HTTPS annotate commands of this run that succeeded
    annotArn,       \* the ARN this run wrote as certificate-arn (0: none)
    seenIssued,     \* the ARNs this run has observed in status ISSUED
    \* ---- applyWithRetry with its clock ----
    awpc,           \* position inside applyWithRetry
    awParams,       \* the arguments maxRetries and maxWaitPerRetry
    awEnv,          \* when the webhook gets endpoints and the apply succeeds
    clock,          \* seconds since startTime
    ai,             \* loop counter i
    aj,             \* loop counter j
    totalElapsed,   \* local totalElapsed
    waitStartTime,  \* local waitStartTime, in seconds since startTime
    webhookReady,   \* local webhookReady
    attempts,       \* executions of the apply command
    probes,         \* invocations of checkWebhookReady
    lastResult,     \* result of the last apply of applyWithRetry
    \* ---- the readiness probes on a cluster snapshot ----
    nodes,          \* kubectl get nodes: the STATUS text of each node line
    replicaField,   \* .status.readyReplicas of the controller deployment
    podPhase,       \* .status.phase of the controller pod
    endpointIps,    \* addresses of the webhook service endpoints
    probeThrows,    \* the kubectl call of checkWebhookReady throws
    nodeVerdict,    \* "none", or what the node check concluded
    deployVerdict,  \* "none", or what checkALBDeploymentReady returned
    webhookVerdict, \* "none", or what checkWebhookReady returned
    pollNo,         \* which poll of the snapshot this is
    firstVerdicts,  \* what the probes concluded in the first poll
    \* ---- the diagnostics report ----
    dgMode,         \* who asked for the report
    dgpc,           \* position inside the report
    hi,             \* index of the system component being checked
    hasIssues,      \* local hasIssues of checkSystemHealth
    dgAttempted,    \* the collection calls executed so far
    dgFailed,       \* the collection calls that threw
    dgResult,       \* "none", "returned" or "threw"
    \* ---- the delete command ----
    delRun,         \* which invocation of the delete command this is
    delpc,          \* position inside the command
    delNs,          \* the namespace the user selects
    hasCF,          \* the saved configuration has Cloudflare credentials
    ri,             \* index of the resource the loop is at
    present,        \* cluster: which of the application's resources exist
    nsPresent,      \* cluster: the selected namespace exists
    dnsRecord,      \* Cloudflare: the record of the hostname exists
    delOrder,       \* the deletions this invocation attempted, in order
    delConfirmed,   \* the confirmations the user gave in this invocation
    declined,       \* the user cancelled or answered no to the deletion
    delResult,      \* "none", "returned" or "failed" (exit code 1)
    attemptsRun1,   \* the deletions the first invocation attempted
    leftRun1,       \* the resources that existed when it had ended
    \* ---- checkAppHealth ----
    hpc,            \* position inside checkAppHealth
    maxRetries,     \* its argument maxRetries
    hI,             \* loop counter i
    hRequests,      \* axios.get calls so far
    hSleeps,        \* 10 s sleeps so far
    hLast,          \* "none", or what the latest request ended with
    hResult,        \* "none", "returned" or "threw"
    \* ---- setupCloudflareDNS and deleteCloudflareRecord ----
    cfpc,           \* position inside the function
    cfOp,           \* "upsert" (setupCloudflareDNS) or "delete"
    cfCreds,        \* the configuration has the API token and the zone id
    cfRecords,      \* Cloudflare: contents of the records of the hostname
    cfCalls,        \* API calls of this invocation, in order
    cfResult,       \* "none", "returned" or "threw"
    cfReport,       \* what waitForIngressAndSetupDNS printed about DNS
    cfCallNo,       \* first or second invocation
    cfDeleted       \* the first invocation deleted a record

pipeVars == <<cfg, pc, stepState, order, outcome, failedStep, errorMsg,
              diagnosed, cancelRaised, imageUri, domainSetup, requested,
              nodeI,
              nodesReadySeen,
              ctrlPath, wi, podReady, deploymentReady, obs, whResult,
              whScript, sawAbsent, awI, applied, applyErrSeen, albHost, dnsResult,
              summary, nsExists, nsAttempted, createdEarly,
              refused, rolloutWaits, waitFailures, fixRuns>>

albLocals == <<albDNS, retries, albPolls, certificateError, fixApplied>>
certLocals == <<waitLoop, waitRetries, validated, wpolls, lastSeen,
                polledAfterTerminal, newArn>>
cloudVars == <<acm, valRecs, cname>>
runVars == <<run, dcfg, certArn, reqThisRun, reqRun1, extChange>>

annotVars == <<httpsCmds, annotArn, seenIssued>>

domVars == <<dpc, runVars, cloudVars, albLocals, certLocals, annotVars>>

retryVars == <<awpc, awParams, awEnv, clock, ai, aj, totalElapsed,
               waitStartTime, webhookReady, attempts, probes, lastResult>>

probeVars == <<nodes, replicaField, podPhase, endpointIps, probeThrows,
               nodeVerdict, deployVerdict, webhookVerdict, pollNo,
               firstVerdicts>>

diagVars == <<dgMode, dgpc, hi, hasIssues, dgAttempted, dgFailed, dgResult>>

delVars == <<delRun, delpc, delNs, hasCF, ri, present, nsPresent, dnsRecord,
             delOrder, delConfirmed, declined, delResult, attemptsRun1,
             leftRun1>>

healthVars == <<hpc, maxRetries, hI, hRequests, hSleeps, hLast, hResult>>

cfVars == <<cfpc, cfOp, cfCreds, cfRecords, cfCalls, cfResult, cfReport,
            cfCallNo, cfDeleted>>

toolVars == <<diagVars, delVars, healthVars, cfVars>>

vars == <<pipeVars, domVars, retryVars, probeVars, toolVars>>

-----------------------------------------------------------------------------
(* Program constants.                                                      *)

NodeWaitPolls == 60
WebhookWaitSeconds == 90
WebhookPollSeconds == 3
ApplyMaxRetries == 15
AlbRetries == 60
AlbRetriesAfterFix == 30
CertWaitRetries == 60
MaxTotalWait == 300
ProbeSleep == 3
ReadySleep == 2
RetrySleep == 5

(* Bounds of the model.                                                    *)

MaxReplicas == 3
MaxAlbPolls == 95       \* polls of the load balancer loop that are followed
MaxCerts == 3           \* certificates ACM holds for the hostname
MaxRuns == 2            \* runs in succession
MaxHealthRetries == 6   \* largest maxRetries given to checkAppHealth
MaxNodes == 3           \* nodes of the cluster
MaxEndpoints == 2       \* addresses of the webhook service

-----------------------------------------------------------------------------
(* The declared steps of deployToEKS, in source order.                     *)

Steps == << "configureAWS", "setupKubectl", "checkAndEnsureNodes",
            "checkAndInstallALBController", "buildAndPushImage",
            "setupECRImagePullSecret", "applyManifests", "rolloutWait",
            "waitForIngressAndSetupDNS" >>

StepNames == { Steps[i] : i \in 1..Len(Steps) }

StepIndex(s) == CHOOSE i \in 1..Len(Steps) : Steps[i] = s

Terminal == {"completed", "skipped"}

(* A pipeline that runs the DNS step whenever ingress is enabled.          *)
ApplicableWithoutDomain(s, c) ==
    CASE s = "checkAndInstallALBController" -> c.enableIngress
      [] s = "setupECRImagePullSecret"      -> c.registry = "ecr"
      [] s = "waitForIngressAndSetupDNS"    -> c.enableIngress
      [] OTHER                              -> TRUE

(* The conditions under which deployToEKS calls a step at all.             *)
Applicable(s, c) ==
    CASE s = "checkAndInstallALBController" -> c.enableIngress
      [] s = "setupECRImagePullSecret"      -> c.registry = "ecr"
      [] s = "waitForIngressAndSetupDNS"    -> c.domain /\ c.enableIngress
      [] OTHER                              -> TRUE

(* A pipeline whose image build comes after the manifests are applied.     *)
NextStepReordered(s) ==
    IF s = "checkAndInstallALBController" THEN "applyManifests"
    ELSE IF s = "applyManifests" THEN "buildAndPushImage"
    ELSE IF s = "setupECRImagePullSecret" THEN "rolloutWait"
    ELSE IF StepIndex(s) = Len(Steps) THEN "serviceInfo"
    ELSE Steps[StepIndex(s) + 1]

(* The statement that follows step s in deployToEKS.                       *)
NextStep(s) ==
    IF StepIndex(s) = Len(Steps) THEN "serviceInfo" ELSE Steps[StepIndex(s) + 1]

Configs == [enableIngress : BOOLEAN, domain : BOOLEAN,
            registry : {"none", "ecr", "other"}]

NoObs == [phase |-> "none", readyReplicas |-> 0, endpoints |-> 0]

-----------------------------------------------------------------------------
(* Helpers for the control flow of deployToEKS.                            *)

Begin(s) == order' = Append(order, s)

Complete(s) ==
    /\ stepState' = [stepState EXCEPT ![s] = "completed"]
    /\ pc' = NextStep(s)
    /\ UNCHANGED <<outcome, failedStep, errorMsg>>

(* An error thrown by step s leaves deployToEKS: cli.ts prints its message. *)
Throw(s, msg) ==
    /\ stepState' = [stepState EXCEPT ![s] = "failed"]
    /\ pc' = "failed"
    /\ outcome' = "failed"
    /\ failedStep' = s
    /\ errorMsg' = msg

(* A kubectl call that creates the resources rs in the target namespace.   *)
Create(rs) ==
    createdEarly' = IF nsAttempted THEN createdEarly ELSE createdEarly \cup rs

nodeLocals == <<nodeI, nodesReadySeen>>
whLocals == <<wi, podReady, deploymentReady, obs, whResult, whScript,
              sawAbsent>>
applyLocals == <<awI, applied, applyErrSeen>>
tailVars == <<albHost, dnsResult, summary>>
nsVars == <<nsExists, nsAttempted, createdEarly>>
rolloutLocals == <<rolloutWaits, waitFailures, fixRuns>>

-----------------------------------------------------------------------------
(* The values of a part of the state while that part is not running.       *)

DomainConfigs == [enableSSL : BOOLEAN, cloudflare : BOOLEAN,
                  certificateARN : {0, 1}]

NoCerts == [a \in 1..MaxCerts |-> "absent"]

AlbLocalsFresh ==
    /\ albDNS = FALSE
    /\ retries = 0
    /\ albPolls = 0
    /\ certificateError = FALSE
    /\ fixApplied = FALSE

CertLocalsFresh ==
    /\ waitLoop = 0
    /\ waitRetries = 0
    /\ validated = FALSE
    /\ wpolls = 0
    /\ lastSeen = "none"
    /\ polledAfterTerminal = FALSE
    /\ newArn = 0

AnnotFresh ==
    /\ httpsCmds = 0
    /\ annotArn = 0
    /\ seenIssued = {}

DomainIdle ==
    /\ dpc = "idle"
    /\ run = 1
    /\ dcfg = [enableSSL |-> FALSE, cloudflare |-> FALSE, certificateARN |-> 0]
    /\ certArn = 0
    /\ acm = NoCerts
    /\ valRecs = {}
    /\ cname = "none"
    /\ AlbLocalsFresh
    /\ CertLocalsFresh
    /\ AnnotFresh
    /\ reqThisRun = 0
    /\ reqRun1 = 0
    /\ extChange = FALSE

RetryIdle ==
    /\ awpc = "idle"
    /\ awParams = [maxRetries |-> 0, maxWaitPerRetry |-> 0]
    /\ awEnv = [readyAt |-> 0, applyOkAt |-> 0, otherError |-> FALSE]
    /\ clock = 0
    /\ ai = 0
    /\ aj = 0
    /\ totalElapsed = 0
    /\ waitStartTime = 0
    /\ webhookReady = FALSE
    /\ attempts = 0
    /\ probes = 0
    /\ lastResult = "none"

NoVerdicts == [node |-> "none", deployment |-> "none", webhook |-> "none"]

ProbesIdle ==
    /\ pollNo = 1
    /\ firstVerdicts = NoVerdicts
    /\ nodes = << >>
    /\ replicaField = [present |-> FALSE, count |-> 0]
    /\ podPhase = "none"
    /\ endpointIps = 0
    /\ probeThrows = FALSE
    /\ nodeVerdict = "none"
    /\ deployVerdict = "none"
    /\ webhookVerdict = "none"

DiagIdle ==
    /\ dgMode = "none"
    /\ dgpc = "idle"
    /\ hi = 0
    /\ hasIssues = FALSE
    /\ dgAttempted = {}
    /\ dgFailed = {}
    /\ dgResult = "none"

(* Lines 375-380 of the delete command: the resources of an application,  *)
(* in the order the loop deletes them.                                     *)
resources == <<"deployment", "service", "ingress", "hpa">>

ResourceTypes == { resources[i] : i \in 1..Len(resources) }

DeleteIdle ==
    /\ delRun = 1
    /\ delpc = "idle"
    /\ delNs = "default"
    /\ hasCF = FALSE
    /\ ri = 0
    /\ present = [r \in ResourceTypes |-> FALSE]
    /\ nsPresent = TRUE
    /\ dnsRecord = FALSE
    /\ delOrder = << >>
    /\ delConfirmed = {}
    /\ declined = FALSE
    /\ delResult = "none"
    /\ attemptsRun1 = {}
    /\ leftRun1 = {}

HealthIdle ==
    /\ hpc = "idle"
    /\ maxRetries = 0
    /\ hI = 0
    /\ hRequests = 0
    /\ hSleeps = 0
    /\ hLast = "none"
    /\ hResult = "none"

CloudflareIdle ==
    /\ cfpc = "idle"
    /\ cfOp = "none"
    /\ cfCreds = FALSE
    /\ cfRecords = << >>
    /\ cfCalls = << >>
    /\ cfResult = "none"
    /\ cfReport = "none"
    /\ cfCallNo = 1
    /\ cfDeleted = FALSE

ToolsIdle == DiagIdle /\ DeleteIdle /\ HealthIdle /\ CloudflareIdle

PipelineIdle ==
    /\ cfg = [enableIngress |-> FALSE, domain |-> FALSE, registry |-> "none"]
    /\ pc = "idle"
    /\ stepState = [s \in StepNames |-> "pending"]
    /\ order = << >>
    /\ outcome = "running"
    /\ failedStep = "none"
    /\ errorMsg = "none"
    /\ diagnosed = FALSE
    /\ cancelRaised = FALSE
    /\ imageUri = "unset"
    /\ domainSetup = FALSE
    /\ requested = {}
    /\ nodeI = 0
    /\ nodesReadySeen = FALSE
    /\ ctrlPath = "none"
    /\ wi = 0
    /\ podReady = FALSE
    /\ deploymentReady = FALSE
    /\ obs = NoObs
    /\ whResult = "none"
    /\ whScript = 0
    /\ sawAbsent = FALSE
    /\ awI = 0
    /\ applied = FALSE
    /\ applyErrSeen = FALSE
    /\ albHost = "null"
    /\ dnsResult = "none"
    /\ summary = "none"
    /\ nsExists = TRUE
    /\ nsAttempted = FALSE
    /\ createdEarly = {}
    /\ refused = "none"
    /\ rolloutWaits = 0
    /\ waitFailures = 0
    /\ fixRuns = 0

-----------------------------------------------------------------------------
Init ==
    /\ cfg \in Configs
    /\ pc = "generateManifests"
    /\ stepState = [s \in StepNames |-> "pending"]
    /\ order = << >>
    /\ outcome = "running"
    /\ failedStep = "none"
    /\ errorMsg = "none"
    /\ diagnosed = FALSE
    /\ cancelRaised = FALSE
    /\ imageUri = "unset"
    /\ domainSetup = FALSE
    /\ requested = {}
    /\ nodeI = 0
    /\ nodesReadySeen = FALSE
    /\ ctrlPath = "none"
    /\ wi = 0
    /\ podReady = FALSE
    /\ deploymentReady = FALSE
    /\ obs = NoObs
    /\ whResult = "none"
    /\ whScript = 0
    /\ sawAbsent = FALSE
    /\ awI = 0
    /\ applied = FALSE
    /\ applyErrSeen = FALSE
    /\ albHost = "null"
    /\ dnsResult = "none"
    /\ summary = "none"
    /\ nsExists \in BOOLEAN
    /\ nsAttempted = FALSE
    /\ createdEarly = {}
    /\ refused = "none"
    /\ rolloutWaits = 0
    /\ waitFailures = 0
    /\ fixRuns = 0
    /\ DomainIdle
    /\ RetryIdle
    /\ ProbesIdle
    /\ ToolsIdle

(* What a call of setupDomain meets: a configured certificateARN, a        *)
(* certificate of the hostname in ACM and its status, whether the ACM      *)
(* calls succeed, and whether the configuration has Cloudflare             *)
(* credentials.                                                            *)
SetupDomainInputs ==
    [certificateARN : BOOLEAN,
     existing : {"none", "PENDING_VALIDATION", "ISSUED"},
     acmOk : BOOLEAN, cloudflare : BOOLEAN]

(* setupDomain, aws-utils.ts lines 1003-1085, by the requests it issues    *)
(* that create something: RequestCertificate when no certificate is        *)
(* configured and none is found (line 1067), and the validation records    *)
(* of setupCertificateValidation for a requested certificate (line 1073)   *)
(* or a found one that is pending (line 1049).                             *)
setupDomainRequests(d) ==
    IF d.certificateARN \/ ~d.acmOk THEN {}
    ELSE IF d.existing = "none"
         THEN {"RequestCertificate"}
                \cup (IF d.cloudflare THEN {"ValidationRecord"} ELSE {})
    ELSE IF d.existing = "PENDING_VALIDATION" /\ d.cloudflare
         THEN {"ValidationRecord"}
    ELSE {}

(* deploy.ts lines 19-74: the artifacts directory, the Dockerfile and the  *)
(* manifests; with a domain that has enableSSL, setupDomain is called      *)
(* first (lines 41-47; it catches its errors).                             *)
GenerateManifests ==
    /\ pc = "generateManifests"
    /\ pc' = "configureAWS"
    /\ \E enableSSL \in BOOLEAN, d \in SetupDomainInputs :
          /\ domainSetup' = (cfg.domain /\ enableSSL)
          /\ requested' = IF cfg.domain /\ enableSSL
                          THEN setupDomainRequests(d) ELSE {}
    /\ UNCHANGED <<cfg, stepState, order, outcome, failedStep, errorMsg,
                   diagnosed, cancelRaised, imageUri, ctrlPath>>
    /\ UNCHANGED <<nodeLocals, whLocals, applyLocals>>
    /\ UNCHANGED tailVars
    /\ UNCHANGED <<nsVars, refused, rolloutLocals>>
    /\ UNCHANGED <<domVars, retryVars, probeVars, toolVars>>

(* A step whose condition is false is passed over.                         *)
SkipStep ==
    /\ pc \in StepNames
    /\ ~Applicable(pc, cfg)
    /\ stepState' = [stepState EXCEPT ![pc] = "skipped"]
    /\ pc' = NextStep(pc)
    /\ UNCHANGED <<domainSetup, requested>>
    /\ UNCHANGED <<cfg, order, outcome, failedStep, errorMsg, diagnosed,
                   cancelRaised, imageUri, ctrlPath>>
    /\ UNCHANGED <<nodeLocals, whLocals, applyLocals>>
    /\ UNCHANGED tailVars
    /\ UNCHANGED <<nsVars, refused, rolloutLocals>>
    /\ UNCHANGED <<domVars, retryVars, probeVars, toolVars>>

(* configureAWS: the cluster exists, or an error is thrown.                *)
ConfigureAWS ==
    /\ pc = "configureAWS"
    /\ Begin("configureAWS")
    /\ \E exists \in BOOLEAN :
          IF exists THEN Complete("configureAWS")
          ELSE Throw("configureAWS", "Cluster not found")
    /\ UNCHANGED <<domainSetup, requested>>
    /\ UNCHANGED <<cfg, diagnosed, cancelRaised, imageUri, ctrlPath>>
    /\ UNCHANGED <<nodeLocals, whLocals, applyLocals>>
    /\ UNCHANGED tailVars
    /\ UNCHANGED <<nsVars, refused, rolloutLocals>>
    /\ UNCHANGED <<domVars, retryVars, probeVars, toolVars>>

(* setupKubectl: update-kubeconfig and cluster-info, or an error wrapped.  *)
SetupKubectl ==
    /\ pc = "setupKubectl"
    /\ Begin("setupKubectl")
    /\ \E ok \in BOOLEAN :
          IF ok THEN Complete("setupKubectl")
          ELSE Throw("setupKubectl", "Failed to setup kubectl")
    /\ UNCHANGED <<domainSetup, requested>>
    /\ UNCHANGED <<cfg, diagnosed, cancelRaised, imageUri, ctrlPath>>
    /\ UNCHANGED <<nodeLocals, whLocals, applyLocals>>
    /\ UNCHANGED tailVars
    /\ UNCHANGED <<nsVars, refused, rolloutLocals>>
    /\ UNCHANGED <<domVars, retryVars, probeVars, toolVars>>

(* checkAndEnsureNodes, lines 63-128: the initial probe and the node-group *)
(* handling.  Every error but the wait timeout is caught at line 152 and   *)
(* the function then returns normally.  The probe commands end in          *)
(* `|| echo "0"` and so have no failing exit.                              *)
CheckAndEnsureNodes ==
    /\ pc = "checkAndEnsureNodes"
    /\ Begin("checkAndEnsureNodes")
    /\ \E first \in {"ready", "notReady"},
          nodeGroups \in {"ok", "error"} :
          CASE first = "ready" ->
                 /\ nodesReadySeen' = TRUE
                 /\ nodeI' = nodeI
                 /\ Complete("checkAndEnsureNodes")
            [] first = "notReady" /\ nodeGroups = "error" ->
                 /\ UNCHANGED nodeLocals
                 /\ Complete("checkAndEnsureNodes")
            [] OTHER ->
                 /\ nodeI' = 0
                 /\ nodesReadySeen' = FALSE
                 /\ stepState' =
                      [stepState EXCEPT ![pc] = "running"]
                 /\ pc' = "nodes.wait"
                 /\ UNCHANGED <<outcome, failedStep, errorMsg>>
    /\ UNCHANGED <<domainSetup, requested>>
    /\ UNCHANGED <<cfg, diagnosed, cancelRaised, imageUri, ctrlPath>>
    /\ UNCHANGED <<whLocals, applyLocals>>
    /\ UNCHANGED tailVars
    /\ UNCHANGED <<nsVars, refused, rolloutLocals>>
    /\ UNCHANGED <<domVars, retryVars, probeVars, toolVars>>

(* One iteration of the node wait loop, lines 131-149.                     *)
NodeWaitPoll ==
    /\ pc = "nodes.wait"
    /\ nodeI < NodeWaitPolls
    /\ \E probe \in {"ready", "notReady"} :
          CASE probe = "ready" ->
                 /\ nodesReadySeen' = TRUE
                 /\ nodeI' = 0
                 /\ Complete("checkAndEnsureNodes")
            [] OTHER ->
                 /\ nodeI' = nodeI + 1
                 /\ UNCHANGED <<nodesReadySeen, pc, stepState, outcome,
                                failedStep, errorMsg>>
    /\ UNCHANGED <<domainSetup, requested>>
    /\ UNCHANGED <<cfg, order, diagnosed, cancelRaised, imageUri, ctrlPath>>
    /\ UNCHANGED <<whLocals, applyLocals>>
    /\ UNCHANGED tailVars
    /\ UNCHANGED <<nsVars, refused, rolloutLocals>>
    /\ UNCHANGED <<domVars, retryVars, probeVars, toolVars>>

(* Line 151: the loop ran out; the error is rethrown at line 154.          *)
NodeWaitTimeout ==
    /\ pc = "nodes.wait"
    /\ nodeI = NodeWaitPolls
    /\ Throw("checkAndEnsureNodes", "Nodes did not become ready")
    /\ nodeI' = 0
    /\ UNCHANGED nodesReadySeen
    /\ UNCHANGED <<domainSetup, requested>>
    /\ UNCHANGED <<cfg, order, diagnosed, cancelRaised, imageUri, ctrlPath>>
    /\ UNCHANGED <<whLocals, applyLocals>>
    /\ UNCHANGED tailVars
    /\ UNCHANGED <<nsVars, refused, rolloutLocals>>
    /\ UNCHANGED <<domVars, retryVars, probeVars, toolVars>>

-----------------------------------------------------------------------------
(* The readiness probes of the controller.                                 *)

checkALBPodReady(phase) == phase = "Running"

checkALBDeploymentReady(readyReplicas) == readyReplicas \in {1, 2}

EndpointsReady(endpoints) == endpoints > 0

WebhookMaxIterationsUndivided == WebhookWaitSeconds

(* Line 599: Math.floor(maxWaitSeconds / 3).                               *)
WebhookMaxIterations == WebhookWaitSeconds \div WebhookPollSeconds

CtrlPaths == {"installed", "installOk", "installing", "upgradeWait",
              "installError"}

(* A controller step that never waits for the webhook.                     *)
WaitsForWebhookNever(path) == FALSE

(* The branches of checkAndInstallALBController that end in                *)
(* waitForALBWebhookReady(90): lines 366, 372 and 386.                     *)
WaitsForWebhook(path) == path \in {"installed", "upgradeWait"}

(* checkAndInstallALBController, lines 302-391, up to the webhook wait.    *)
(* "installed": the deployment exists (line 380).  "installOk": helm       *)
(* install --wait succeeded (line 337).  "installing": it timed out and    *)
(* the deployment exists (line 347).  "upgradeWait": helm upgrade and the  *)
(* status loop (lines 351-372).  "installError": eksctl or helm threw;     *)
(* rethrown at line 378 and swallowed at line 388.                         *)
CheckAndInstallALBController ==
    /\ pc = "checkAndInstallALBController"
    /\ Applicable(pc, cfg)
    /\ Begin("checkAndInstallALBController")
    /\ stepState' = [stepState EXCEPT ![pc] = "running"]
    /\ \E path \in CtrlPaths :
          /\ ctrlPath' = path
          /\ pc' = IF WaitsForWebhook(path) THEN "alb.webhookWait"
                   ELSE "alb.iamCheck"
    /\ wi' = 0
    /\ podReady' = FALSE
    /\ deploymentReady' = FALSE
    /\ obs' = NoObs
    /\ whResult' = "none"
    /\ whScript' = 0
    /\ sawAbsent' = FALSE
    /\ UNCHANGED <<domainSetup, requested>>
    /\ UNCHANGED <<cfg, outcome, failedStep, errorMsg, diagnosed,
                   cancelRaised, imageUri>>
    /\ UNCHANGED <<nodeLocals, applyLocals>>
    /\ UNCHANGED tailVars
    /\ UNCHANGED <<nsVars, refused, rolloutLocals>>
    /\ UNCHANGED <<domVars, retryVars, probeVars, toolVars>>

(* Lines 604-616: a flag that is already true is not probed again.         *)
Latch(flag, probe) == IF ~flag THEN probe ELSE flag

(* The webhook-race script: the pod and deployment probes report ready at  *)
(* once, the endpoint list is empty for three polls and populated at the   *)
(* fourth.  stage counts the polls that followed it; -1 once they differ.  *)
ScriptNext(stage, phase, readyReplicas, endpoints) ==
    IF stage \in 0..2 /\ checkALBPodReady(phase)
          /\ checkALBDeploymentReady(readyReplicas) /\ endpoints = 0
    THEN stage + 1
    ELSE IF stage = 3 /\ checkALBPodReady(phase)
          /\ checkALBDeploymentReady(readyReplicas) /\ endpoints > 0
    THEN 4
    ELSE IF stage = 4 THEN 4 ELSE -1

(* A snapshot without the resource: no controller pod (the jsonpath gives  *)
(* nothing, or kubectl fails and echo "" answers), no deployment (echo     *)
(* "0"), no endpoints object (echo "").                                    *)
Absent(phase, readyReplicas) == phase = "none" \/ readyReplicas = 0

(* A wait in which a probe that finds no pod throws out of the loop.       *)
ProbeThrowsOnAbsent(phase, readyReplicas, endpoints) == phase = "none"

(* Lines 394-403, 582-590 and 619-631: each probe runs kubectl with a      *)
(* fallback echo inside a try block whose catch answers false (or does     *)
(* nothing), so no snapshot makes a probe throw out of the loop.           *)
ProbeThrows(phase, readyReplicas, endpoints) == FALSE

(* One iteration of waitForALBWebhookReady, lines 601-648.  phase,         *)
(* readyReplicas and endpoints are the cluster's state in this iteration.  *)
WaitForALBWebhookReady_Iter ==
    /\ pc = "alb.webhookWait"
    /\ wi < WebhookMaxIterations
    /\ \E phase \in {"Running", "Pending", "none"},
          readyReplicas \in 0..MaxReplicas,
          endpoints \in {0, 1} :
          LET pr == Latch(podReady, checkALBPodReady(phase))
              dr == Latch(deploymentReady,
                          checkALBDeploymentReady(readyReplicas))
          IN  /\ podReady' = pr
              /\ deploymentReady' = dr
              /\ whScript' = ScriptNext(whScript, phase, readyReplicas,
                                        endpoints)
              /\ sawAbsent' = (sawAbsent \/ Absent(phase, readyReplicas)
                                         \/ (pr /\ dr /\ endpoints = 0))
              /\ CASE ProbeThrows(phase, readyReplicas, endpoints) ->
                        /\ whResult' = "false"
                        /\ pc' = "alb.webhookReturn"
                        /\ UNCHANGED <<wi, obs>>
                   [] pr /\ dr /\ EndpointsReady(endpoints) ->
                        /\ whResult' = "true"
                        /\ obs' = [phase |-> phase,
                                   readyReplicas |-> readyReplicas,
                                   endpoints |-> endpoints]
                        /\ pc' = "alb.webhookReturn"
                        /\ wi' = wi
                   [] OTHER ->
                        /\ wi' = wi + 1
                        /\ UNCHANGED <<whResult, obs, pc>>
    /\ UNCHANGED <<domainSetup, requested>>
    /\ UNCHANGED <<cfg, stepState, order, outcome, failedStep, errorMsg,
                   diagnosed, cancelRaised, imageUri, ctrlPath>>
    /\ UNCHANGED <<nodeLocals, applyLocals>>
    /\ UNCHANGED tailVars
    /\ UNCHANGED <<nsVars, refused, rolloutLocals>>
    /\ UNCHANGED <<domVars, retryVars, probeVars, toolVars>>

(* Lines 650-663: the loop ran out; the function returns false.            *)
WaitForALBWebhookReady_Exhausted ==
    /\ pc = "alb.webhookWait"
    /\ wi = WebhookMaxIterations
    /\ whResult' = "false"
    /\ pc' = "alb.webhookReturn"
    /\ UNCHANGED <<wi, podReady, deploymentReady, obs, whScript, sawAbsent>>
    /\ UNCHANGED <<domainSetup, requested>>
    /\ UNCHANGED <<cfg, stepState, order, outcome, failedStep, errorMsg,
                   diagnosed, cancelRaised, imageUri, ctrlPath>>
    /\ UNCHANGED <<nodeLocals, applyLocals>>
    /\ UNCHANGED tailVars
    /\ UNCHANGED <<nsVars, refused, rolloutLocals>>
    /\ UNCHANGED <<domVars, retryVars, probeVars, toolVars>>

(* The return into checkAndInstallALBController, which drops the result    *)
(* (lines 366, 372, 386) and returns.  The locals of the wait are gone.    *)
WaitForALBWebhookReady_Return ==
    /\ pc = "alb.webhookReturn"
    /\ pc' = "alb.iamCheck"
    /\ wi' = 0
    /\ podReady' = FALSE
    /\ deploymentReady' = FALSE
    /\ obs' = NoObs
    /\ whScript' = IF whScript = 4 THEN 4 ELSE -1
    /\ sawAbsent' = FALSE
    /\ UNCHANGED whResult
    /\ UNCHANGED <<domainSetup, requested>>
    /\ UNCHANGED <<cfg, stepState, order, outcome, failedStep, errorMsg,
                   diagnosed, cancelRaised, imageUri, ctrlPath>>
    /\ UNCHANGED <<nodeLocals, applyLocals>>
    /\ UNCHANGED tailVars
    /\ UNCHANGED <<nsVars, refused, rolloutLocals>>
    /\ UNCHANGED <<domVars, retryVars, probeVars, toolVars>>

(* deploy.ts lines 92-97: "ALB Controller ready", the 5 s sleep and        *)
(* checkAndFixALBIAMPermissions, which catches every error.                *)
CheckAndFixALBIAMPermissions ==
    /\ pc = "alb.iamCheck"
    /\ Complete("checkAndInstallALBController")
    /\ UNCHANGED <<domainSetup, requested>>
    /\ UNCHANGED <<cfg, order, diagnosed, cancelRaised, imageUri, ctrlPath>>
    /\ UNCHANGED <<nodeLocals, whLocals, applyLocals>>
    /\ UNCHANGED tailVars
    /\ UNCHANGED <<nsVars, refused, rolloutLocals>>
    /\ UNCHANGED <<domVars, retryVars, probeVars, toolVars>>

-----------------------------------------------------------------------------
(* buildAndPushImage, lines 907-1001: null without a registry, when the    *)
(* ECR login fails (line 928) or when the push fails; an error when the    *)
(* build fails.                                                            *)
BuildAndPushImage ==
    /\ pc = "buildAndPushImage"
    /\ Begin("buildAndPushImage")
    /\ \E login \in BOOLEAN, build \in BOOLEAN, push \in BOOLEAN :
          CASE cfg.registry = "none" ->
                 /\ imageUri' = "null"
                 /\ UNCHANGED refused
                 /\ Complete("buildAndPushImage")
            [] cfg.registry = "ecr" /\ ~login ->
                 /\ imageUri' = "null"
                 /\ refused' = "loginRefused"
                 /\ Complete("buildAndPushImage")
            [] ~build ->
                 /\ imageUri' = imageUri
                 /\ UNCHANGED refused
                 /\ Throw("buildAndPushImage", "Failed to build Docker image")
            [] OTHER ->
                 /\ imageUri' = IF push THEN "uri" ELSE "null"
                 /\ UNCHANGED refused
                 /\ Complete("buildAndPushImage")
    /\ UNCHANGED <<domainSetup, requested>>
    /\ UNCHANGED <<cfg, diagnosed, cancelRaised, ctrlPath>>
    /\ UNCHANGED <<nodeLocals, whLocals, applyLocals>>
    /\ UNCHANGED tailVars
    /\ UNCHANGED <<nsVars, rolloutLocals>>
    /\ UNCHANGED <<domVars, retryVars, probeVars, toolVars>>

(* The body of setupECRImagePullSecret, lines 688-820: nothing when the    *)
(* secret is found; return on a registry URL of the wrong format (line     *)
(* 723); then the login password and kubectl create secret in the target   *)
(* namespace, which cannot succeed while the namespace does not exist.     *)
(* Every error is caught at line 814.                                      *)
EnsureECRSecret ==
    \E secretFound \in BOOLEAN, urlValid \in BOOLEAN, passwordOk \in BOOLEAN,
       createOk \in BOOLEAN :
       CASE nsExists /\ secretFound ->
              UNCHANGED <<createdEarly, refused>>
         [] ~urlValid ->
              /\ refused' = "malformedUrl"
              /\ UNCHANGED createdEarly
         [] ~passwordOk ->
              /\ refused' = "loginRefused"
              /\ UNCHANGED createdEarly
         [] nsExists /\ createOk ->
              /\ Create({"ecrSecret"})
              /\ UNCHANGED refused
         [] OTHER ->
              UNCHANGED <<createdEarly, refused>>

(* deploy.ts lines 112-117: setupECRImagePullSecret, before applyManifests. *)
SetupECRImagePullSecret ==
    /\ pc = "setupECRImagePullSecret"
    /\ Applicable(pc, cfg)
    /\ Begin("setupECRImagePullSecret")
    /\ Complete("setupECRImagePullSecret")
    /\ EnsureECRSecret
    /\ UNCHANGED <<domainSetup, requested>>
    /\ UNCHANGED <<cfg, diagnosed, cancelRaised, imageUri, ctrlPath>>
    /\ UNCHANGED <<nodeLocals, whLocals, applyLocals>>
    /\ UNCHANGED tailVars
    /\ UNCHANGED <<nsExists, nsAttempted, rolloutLocals>>
    /\ UNCHANGED <<domVars, retryVars, probeVars, toolVars>>

-----------------------------------------------------------------------------
(* applyManifests, lines 1322-1373.  Every error is rethrown at line 1371  *)
(* as "Failed to apply manifests".                                         *)

(* Lines 1324-1341, for a config.namespace other than default: kubectl     *)
(* create namespace (errors ignored), then secrets.yaml when the config    *)
(* has secrets and deployment.yaml; without the namespace the applies      *)
(* fail.  These and the later applies come after the namespace block.      *)
ApplyManifests_Begin ==
    /\ pc = "applyManifests"
    /\ Begin("applyManifests")
    /\ \E createNsOk \in BOOLEAN, ok \in BOOLEAN :
          /\ nsAttempted' = TRUE
          /\ nsExists' = (nsExists \/ createNsOk)
          /\ IF ok /\ nsExists'
             THEN /\ stepState' = [stepState EXCEPT ![pc] = "running"]
                  /\ pc' = "apply.service"
                  /\ UNCHANGED <<outcome, failedStep, errorMsg, applyErrSeen>>
             ELSE /\ Throw("applyManifests", "Failed to apply manifests")
                  /\ applyErrSeen' = TRUE
    /\ awI' = 0
    /\ UNCHANGED <<domainSetup, requested>>
    /\ UNCHANGED <<cfg, diagnosed, cancelRaised, imageUri, ctrlPath, applied>>
    /\ UNCHANGED <<nodeLocals, whLocals>>
    /\ UNCHANGED tailVars
    /\ UNCHANGED <<createdEarly, refused, rolloutLocals>>
    /\ UNCHANGED <<domVars, retryVars, probeVars, toolVars>>

(* Line 1266: a webhook failure is retried while attempts and time remain. *)
RetryAllowed(i, timeLeft) == i < ApplyMaxRetries - 1 /\ timeLeft

(* One iteration of the loop of applyWithRetry, lines 1257-1319, as the    *)
(* pipeline sees it: the apply, and on the webhook error either the wait   *)
(* cycle (lines 1270-1301) or the exhausted error (line 1313).  An apply   *)
(* meets the webhook error exactly when the webhook service has no         *)
(* endpoints at that moment.  after is the position reached on success.    *)
ApplyWithRetry_Attempt(after) ==
    \E endpoints \in {0, 1}, other \in BOOLEAN, timeLeft \in BOOLEAN :
       /\ applied' = TRUE
       /\ CASE EndpointsReady(endpoints) /\ ~other ->
                 /\ awI' = 0
                 /\ UNCHANGED applyErrSeen
                 /\ IF after = "done"
                    THEN Complete("applyManifests")
                    ELSE /\ pc' = after
                         /\ UNCHANGED <<stepState, outcome, failedStep,
                                        errorMsg>>
            [] EndpointsReady(endpoints) /\ other ->
                 /\ applyErrSeen' = TRUE
                 /\ awI' = awI
                 /\ Throw("applyManifests", "Failed to apply manifests")
            [] ~EndpointsReady(endpoints) /\ RetryAllowed(awI, timeLeft) ->
                 /\ applyErrSeen' = TRUE
                 /\ awI' = awI + 1
                 /\ UNCHANGED <<pc, stepState, outcome, failedStep, errorMsg>>
            [] OTHER ->
                 /\ applyErrSeen' = TRUE
                 /\ awI' = awI
                 /\ Throw("applyManifests",
                          "Failed to apply manifests: Webhook service not ready")

(* A plain execSync apply (lines 1350 and 1359).                           *)
ApplyPlain(after) ==
    \E ok \in BOOLEAN :
       IF ok
       THEN /\ UNCHANGED applyErrSeen
            /\ IF after = "done"
               THEN Complete("applyManifests")
               ELSE /\ pc' = after
                    /\ UNCHANGED <<stepState, outcome, failedStep, errorMsg>>
       ELSE /\ applyErrSeen' = TRUE
            /\ Throw("applyManifests", "Failed to apply manifests")

(* Lines 1343-1354: service.yaml.                                          *)
ApplyManifests_Service ==
    /\ pc = "apply.service"
    /\ IF cfg.enableIngress
       THEN ApplyWithRetry_Attempt("apply.hpa")
       ELSE /\ ApplyPlain("apply.hpa")
            /\ applied' = TRUE
            /\ UNCHANGED awI
    /\ UNCHANGED <<domainSetup, requested>>
    /\ UNCHANGED <<cfg, order, diagnosed, cancelRaised, imageUri, ctrlPath>>
    /\ UNCHANGED <<nodeLocals, whLocals>>
    /\ UNCHANGED tailVars
    /\ UNCHANGED <<nsVars, refused, rolloutLocals>>
    /\ UNCHANGED <<domVars, retryVars, probeVars, toolVars>>

(* Lines 1356-1361: hpa.yaml, when autoscaling is enabled.                 *)
ApplyManifests_Hpa ==
    /\ pc = "apply.hpa"
    /\ \E autoscaling \in BOOLEAN :
          LET after == IF cfg.enableIngress THEN "apply.ingress" ELSE "done"
          IN  IF autoscaling
              THEN ApplyPlain(after)
              ELSE /\ UNCHANGED applyErrSeen
                   /\ IF after = "done"
                      THEN Complete("applyManifests")
                      ELSE /\ pc' = after
                           /\ UNCHANGED <<stepState, outcome, failedStep,
                                          errorMsg>>
    /\ UNCHANGED <<domainSetup, requested>>
    /\ UNCHANGED <<cfg, order, diagnosed, cancelRaised, imageUri, ctrlPath,
                   awI, applied>>
    /\ UNCHANGED <<nodeLocals, whLocals>>
    /\ UNCHANGED tailVars
    /\ UNCHANGED <<nsVars, refused, rolloutLocals>>
    /\ UNCHANGED <<domVars, retryVars, probeVars, toolVars>>

(* Lines 1363-1369: ingress.yaml.                                          *)
ApplyManifests_Ingress ==
    /\ pc = "apply.ingress"
    /\ ApplyWithRetry_Attempt("done")
    /\ UNCHANGED <<domainSetup, requested>>
    /\ UNCHANGED <<cfg, order, diagnosed, cancelRaised, imageUri, ctrlPath>>
    /\ UNCHANGED <<nodeLocals, whLocals>>
    /\ UNCHANGED tailVars
    /\ UNCHANGED <<nsVars, refused, rolloutLocals>>
    /\ UNCHANGED <<domVars, retryVars, probeVars, toolVars>>

-----------------------------------------------------------------------------
(* Step 7 of deployToEKS, deploy.ts lines 123-150.                         *)

Rollout_Begin ==
    /\ pc = "rolloutWait"
    /\ Begin("rolloutWait")
    /\ stepState' = [stepState EXCEPT ![pc] = "running"]
    /\ pc' = "rollout.first"
    /\ UNCHANGED <<domainSetup, requested>>
    /\ UNCHANGED <<cfg, outcome, failedStep, errorMsg, diagnosed,
                   cancelRaised, imageUri, ctrlPath>>
    /\ UNCHANGED <<nodeLocals, whLocals, applyLocals>>
    /\ UNCHANGED tailVars
    /\ UNCHANGED <<nsVars, refused, rolloutLocals>>
    /\ UNCHANGED <<domVars, retryVars, probeVars, toolVars>>

(* Lines 125-131: kubectl rollout status --timeout=300s returns or throws. *)
Rollout_First ==
    /\ pc = "rollout.first"
    /\ rolloutWaits' = rolloutWaits + 1
    /\ \E ready \in BOOLEAN :
          IF ready THEN /\ Complete("rolloutWait")
                        /\ UNCHANGED waitFailures
          ELSE /\ pc' = "rollout.fix"
               /\ waitFailures' = waitFailures + 1
               /\ UNCHANGED <<stepState, outcome, failedStep, errorMsg>>
    /\ UNCHANGED <<domainSetup, requested>>
    /\ UNCHANGED <<cfg, order, diagnosed, cancelRaised, imageUri, ctrlPath>>
    /\ UNCHANGED <<nodeLocals, whLocals, applyLocals>>
    /\ UNCHANGED tailVars
    /\ UNCHANGED <<nsVars, refused, fixRuns>>
    /\ UNCHANGED <<domVars, retryVars, probeVars, toolVars>>

(* An external cancellation while kubectl rollout status runs.  The code   *)
(* reads no cancellation signal: either the process is killed, or only the *)
(* child ends and execSync throws into the catch of line 130.              *)
RaiseCancel ==
    /\ pc = "rollout.first"
    /\ ~cancelRaised
    /\ cancelRaised' = TRUE
    /\ rolloutWaits' = rolloutWaits + 1
    /\ \/ /\ pc' = "killed"
          /\ outcome' = "killed"
          /\ UNCHANGED waitFailures
       \/ /\ pc' = "rollout.fix"
          /\ waitFailures' = waitFailures + 1
          /\ UNCHANGED outcome
    /\ UNCHANGED <<domainSetup, requested>>
    /\ UNCHANGED <<cfg, stepState, order, failedStep, errorMsg, diagnosed,
                   imageUri, ctrlPath>>
    /\ UNCHANGED <<nodeLocals, whLocals, applyLocals>>
    /\ UNCHANGED tailVars
    /\ UNCHANGED <<nsVars, refused, fixRuns>>
    /\ UNCHANGED <<domVars, retryVars, probeVars, toolVars>>

(* A retry of the rollout wait that leaves out the corrective action.      *)
CheckAndFixImagePullError_Omitted ==
    /\ pc = "rollout.fix"
    /\ pc' = "rollout.second"
    /\ UNCHANGED <<domainSetup, requested>>
    /\ UNCHANGED <<cfg, stepState, order, outcome, failedStep, errorMsg,
                   diagnosed, cancelRaised, imageUri, ctrlPath>>
    /\ UNCHANGED <<nodeLocals, whLocals, applyLocals>>
    /\ UNCHANGED tailVars
    /\ UNCHANGED <<nsVars, refused, rolloutLocals>>
    /\ UNCHANGED <<domVars, retryVars, probeVars, toolVars>>

(* Lines 134-137: checkAndFixImagePullError, aws-utils.ts lines 852-905,   *)
(* and the 10 s sleep.  For a pod in ImagePullBackOff with an ECR registry *)
(* it calls setupECRImagePullSecret and deletes the pod; it catches every  *)
(* error.                                                                  *)
CheckAndFixImagePullError ==
    /\ pc = "rollout.fix"
    /\ pc' = "rollout.second"
    /\ fixRuns' = fixRuns + 1
    /\ \E imagePullBackOff \in BOOLEAN :
          IF imagePullBackOff /\ cfg.registry = "ecr"
          THEN EnsureECRSecret
          ELSE UNCHANGED <<createdEarly, refused>>
    /\ UNCHANGED <<domainSetup, requested>>
    /\ UNCHANGED <<cfg, stepState, order, outcome, failedStep, errorMsg,
                   diagnosed, cancelRaised, imageUri, ctrlPath>>
    /\ UNCHANGED <<nodeLocals, whLocals, applyLocals>>
    /\ UNCHANGED tailVars
    /\ UNCHANGED <<nsExists, nsAttempted, rolloutWaits, waitFailures>>
    /\ UNCHANGED <<domVars, retryVars, probeVars, toolVars>>

(* Lines 139-146: the second rollout wait, --timeout=120s.                 *)
Rollout_Second ==
    /\ pc = "rollout.second"
    /\ rolloutWaits' = rolloutWaits + 1
    /\ \E ready \in BOOLEAN :
          IF ready THEN /\ Complete("rolloutWait")
                        /\ UNCHANGED waitFailures
          ELSE /\ pc' = "rollout.diagnose"
               /\ waitFailures' = waitFailures + 1
               /\ UNCHANGED <<stepState, outcome, failedStep, errorMsg>>
    /\ UNCHANGED <<domainSetup, requested>>
    /\ UNCHANGED <<cfg, order, diagnosed, cancelRaised, imageUri, ctrlPath>>
    /\ UNCHANGED <<nodeLocals, whLocals, applyLocals>>
    /\ UNCHANGED tailVars
    /\ UNCHANGED <<nsVars, refused, fixRuns>>
    /\ UNCHANGED <<domVars, retryVars, probeVars, toolVars>>

(* A rollout failure rethrown without the diagnostics.                     *)
Rollout_ThrowUndiagnosed ==
    /\ pc = "rollout.diagnose"
    /\ Throw("rolloutWait", "Command failed: kubectl rollout status")
    /\ UNCHANGED <<domainSetup, requested>>
    /\ UNCHANGED <<cfg, order, diagnosed, cancelRaised, imageUri, ctrlPath>>
    /\ UNCHANGED <<nodeLocals, whLocals, applyLocals>>
    /\ UNCHANGED tailVars
    /\ UNCHANGED <<nsVars, refused, rolloutLocals>>
    /\ UNCHANGED <<domVars, retryVars, probeVars, toolVars>>

(* Lines 147-148: diagnoseDeploymentFailure, then the error is rethrown.   *)
Rollout_DiagnoseAndThrow ==
    /\ pc = "rollout.diagnose"
    /\ diagnosed' = TRUE
    /\ Throw("rolloutWait", "Command failed: kubectl rollout status")
    /\ UNCHANGED <<domainSetup, requested>>
    /\ UNCHANGED <<cfg, order, cancelRaised, imageUri, ctrlPath>>
    /\ UNCHANGED <<nodeLocals, whLocals, applyLocals>>
    /\ UNCHANGED tailVars
    /\ UNCHANGED <<nsVars, refused, rolloutLocals>>
    /\ UNCHANGED <<domVars, retryVars, probeVars, toolVars>>

(* deploy.ts lines 152-159: waitForIngressAndSetupDNS returns a hostname   *)
(* or null (no load balancer in time), or throws; an error it throws is    *)
(* caught at line 156 and the run goes on.                                 *)
WaitForIngressAndSetupDNS ==
    /\ pc = "waitForIngressAndSetupDNS"
    /\ Applicable(pc, cfg)
    /\ Begin("waitForIngressAndSetupDNS")
    /\ \E result \in {"threw", "null", "host"} :
          /\ dnsResult' = result
          /\ albHost' = IF result = "host" THEN "host" ELSE albHost
          /\ stepState' = [stepState EXCEPT
                             ![pc] = IF result = "threw" THEN "skipped"
                                                         ELSE "completed"]
          /\ pc' = NextStep(pc)
    /\ UNCHANGED summary
    /\ UNCHANGED <<nsVars, refused, rolloutLocals>>
    /\ UNCHANGED <<domainSetup, requested>>
    /\ UNCHANGED <<cfg, outcome, failedStep, errorMsg, diagnosed,
                   cancelRaised, imageUri, ctrlPath>>
    /\ UNCHANGED <<nodeLocals, whLocals, applyLocals>>
    /\ UNCHANGED <<domVars, retryVars, probeVars, toolVars>>

(* Lines 161-214: "Step 8", inside try/catch.  With ingress enabled the    *)
(* ingress is read again and albDNS is assigned its hostname, or null when *)
(* it has none (line 176); an error of kubectl leaves albDNS as it is.     *)
ServiceInfo ==
    /\ pc = "serviceInfo"
    /\ pc' = "healthCheck"
    /\ \E serviceOk \in BOOLEAN, ingressOk \in BOOLEAN,
          hostname \in {"null", "host"} :
          albHost' = IF cfg.enableIngress /\ serviceOk /\ ingressOk
                     THEN hostname ELSE albHost
    /\ UNCHANGED <<dnsResult, summary>>
    /\ UNCHANGED <<nsVars, refused, rolloutLocals>>
    /\ UNCHANGED <<domainSetup, requested>>
    /\ UNCHANGED <<cfg, stepState, order, outcome, failedStep, errorMsg,
                   diagnosed, cancelRaised, imageUri, ctrlPath>>
    /\ UNCHANGED <<nodeLocals, whLocals, applyLocals>>
    /\ UNCHANGED <<domVars, retryVars, probeVars, toolVars>>

(* Lines 216-277: "Deployment completed successfully!", then the closing   *)
(* report.  With ingress and a hostname: the application is live at the    *)
(* domain, or accessible via the load balancer's hostname when no domain   *)
(* is configured (each with checkAppHealth, which catches every error).    *)
(* With ingress and no hostname: the load balancer is still being          *)
(* provisioned (printed only with a domain).  Without ingress: the service *)
(* name <appName>-service and the port-forward hint.  deployToEKS returns. *)
HealthCheckAndReturn ==
    /\ pc = "healthCheck"
    /\ pc' = "done"
    /\ outcome' = "success"
    /\ summary' = IF cfg.enableIngress /\ albHost = "host"
                  THEN (IF cfg.domain THEN "live" ELSE "viaALB")
                  ELSE IF cfg.enableIngress
                  THEN (IF cfg.domain THEN "provisioning" ELSE "nothing")
                  ELSE "portForward"
    /\ UNCHANGED <<albHost, dnsResult>>
    /\ UNCHANGED <<nsVars, refused, rolloutLocals>>
    /\ UNCHANGED <<domainSetup, requested>>
    /\ UNCHANGED <<cfg, stepState, order, failedStep, errorMsg,
                   diagnosed, cancelRaised, imageUri, ctrlPath>>
    /\ UNCHANGED <<nodeLocals, whLocals, applyLocals>>
    /\ UNCHANGED <<domVars, retryVars, probeVars, toolVars>>

Next ==
    \/ GenerateManifests
    \/ SkipStep
    \/ ConfigureAWS
    \/ SetupKubectl
    \/ CheckAndEnsureNodes
    \/ NodeWaitPoll
    \/ NodeWaitTimeout
    \/ CheckAndInstallALBController
    \/ WaitForALBWebhookReady_Iter
    \/ WaitForALBWebhookReady_Exhausted
    \/ WaitForALBWebhookReady_Return
    \/ CheckAndFixALBIAMPermissions
    \/ BuildAndPushImage
    \/ SetupECRImagePullSecret
    \/ ApplyManifests_Begin
    \/ ApplyManifests_Service
    \/ ApplyManifests_Hpa
    \/ ApplyManifests_Ingress
    \/ Rollout_Begin
    \/ Rollout_First
    \/ RaiseCancel
    \/ CheckAndFixImagePullError
    \/ Rollout_Second
    \/ Rollout_DiagnoseAndThrow
    \/ WaitForIngressAndSetupDNS
    \/ ServiceInfo
    \/ HealthCheckAndReturn

Spec == Init /\ [][Next]_vars

-----------------------------------------------------------------------------
(* Properties of the pipeline (checked under Spec).                        *)

TypeOK ==
    /\ cfg \in Configs
    /\ stepState \in [StepNames -> {"pending", "running", "completed",
                                    "skipped", "failed"}]
    /\ outcome \in {"running", "success", "failed", "killed"}
    /\ nodeI \in 0..NodeWaitPolls
    /\ wi \in 0..WebhookMaxIterations
    /\ awI \in 0..(ApplyMaxRetries - 1)
    /\ whResult \in {"none", "true", "false"}
    /\ whScript \in -1..4
    /\ sawAbsent \in BOOLEAN
    /\ albHost \in {"null", "host"}
    /\ dnsResult \in {"none", "threw", "null", "host"}
    /\ summary \in {"none", "live", "viaALB", "provisioning", "nothing",
                    "portForward"}
    /\ domainSetup \in BOOLEAN
    /\ requested \subseteq {"RequestCertificate", "ValidationRecord"}
    /\ nsExists \in BOOLEAN
    /\ nsAttempted \in BOOLEAN
    /\ createdEarly \subseteq {"ecrSecret"}
    /\ refused \in {"none", "loginRefused", "malformedUrl"}
    /\ rolloutWaits \in 0..2
    /\ waitFailures \in 0..rolloutWaits
    /\ fixRuns \in 0..1

Begun == { order[i] : i \in 1..Len(order) }

(* C1: the steps of deployToEKS begin in the declared order, each at most  *)
(* once and only when its condition holds; a step has begun only if every  *)
(* earlier step is completed or skipped (so no two steps run at once, and  *)
(* nothing begins after a step has failed); the steps begun are exactly    *)
(* the applicable ones that are no longer pending.                         *)
C1_StepsInDeclaredOrder ==
    /\ \A i, j \in 1..Len(order) :
          i < j => StepIndex(order[i]) < StepIndex(order[j])
    /\ \A s \in StepNames :
          stepState[s] # "pending" =>
             \A t \in StepNames :
                StepIndex(t) < StepIndex(s) => stepState[t] \in Terminal
    /\ Begun = { s \in StepNames :
                   Applicable(s, cfg) /\ stepState[s] # "pending" }
    /\ outcome = "failed" =>
          /\ stepState[failedStep] = "failed"
          /\ \A t \in StepNames :
                StepIndex(t) > StepIndex(failedStep) => stepState[t] = "pending"

(* C1 witness: a run with every step applicable has begun all nine steps   *)
(* and returned.                                                           *)
C1_Witness == outcome = "success" /\ Len(order) = Len(Steps)

StepOfMessage(msg) ==
    CASE msg = "Cluster not found" -> "configureAWS"
      [] msg = "Failed to setup kubectl" -> "setupKubectl"
      [] msg = "Nodes did not become ready" -> "checkAndEnsureNodes"
      [] msg = "Failed to build Docker image" -> "buildAndPushImage"
      [] msg = "Failed to apply manifests" -> "applyManifests"
      [] msg = "Failed to apply manifests: Webhook service not ready"
           -> "applyManifests"
      [] msg = "Command failed: kubectl rollout status" -> "rolloutWait"
      [] OTHER -> "none"

C9_CancelStopsRun ==
    cancelRaised =>
       /\ outcome \notin {"success", "failed"}
       /\ pc \notin {"rollout.fix", "rollout.second", "rollout.diagnose",
                     "waitForIngressAndSetupDNS", "serviceInfo",
                     "healthCheck", "done", "failed"}

(* C10 as claimed: waitForALBWebhookReady returns true only if in the      *)
(* returning iteration the controller pod is Running, the deployment has a *)
(* ready replica and the webhook service has an endpoint.                  *)
C10_FreshProbes ==
    (pc = "alb.webhookReturn" /\ whResult = "true") =>
       /\ obs.phase = "Running"
       /\ obs.readyReplicas >= 1
       /\ obs.endpoints > 0

(* C14: checkAndEnsureNodes has returned normally only if a probe of the   *)
(* call saw a ready node; otherwise the run has stopped at the node step.  *)
C14_NodeStepNeedsReadyNode ==
    stepState["checkAndEnsureNodes"] = "completed" => nodesReadySeen

(* C15: when the installation of the controller failed, the run has ended  *)
(* with the error of the controller step.                                  *)
C15_InstallErrorAbortsRun ==
    ctrlPath = "installError" =>
       outcome = "failed" /\ failedStep = "checkAndInstallALBController"

(* A run that returned without an image reference, or whose DNS step       *)
(* threw or found no load balancer in time.                                *)
PartialSuccess ==
    \/ imageUri = "null"
    \/ dnsResult \in {"threw", "null"}

(* C16: a run with a partial success is not reported with the outcome of a *)
(* fully successful run.                                                   *)
C16_PartialSuccessNotSuccess ==
    PartialSuccess => outcome # "success"

(* C20: when the DNS step threw or found no load balancer in time, the     *)
(* hostname of deployToEKS stays unset and the closing report does not     *)
(* present the application as live behind its load balancer.               *)
C20_SkippedOutputStaysUnset ==
    dnsResult \in {"threw", "null"} =>
       albHost = "null" /\ summary # "live"

C21_NamespaceBeforeResources ==
    createdEarly = {}

(* The steps the happy path names, in the order it names them.             *)
HappyOrder == << "configureAWS", "checkAndEnsureNodes",
                 "checkAndInstallALBController", "buildAndPushImage",
                 "applyManifests", "rolloutWait" >>

IsHappyStep(s) == \E i \in 1..Len(HappyOrder) : HappyOrder[i] = s

(* A completed run with ingress enabled, no domain configured, the         *)
(* controller found installed and the first rollout wait successful.       *)
HappyPath ==
    /\ outcome = "success"
    /\ cfg.enableIngress /\ ~cfg.domain
    /\ ctrlPath = "installed"
    /\ waitFailures = 0

(* C27 as claimed: the closing report of the happy path names no hostname. *)
C27_HappyPathNamesNoHostname ==
    HappyPath => summary # "viaALB"

(* C27 as amended: the happy path begins cluster check, node check,        *)
(* controller check, build and push, apply and rollout wait in that order, *)
(* each exactly once, with one rollout wait and no corrective action; it   *)
(* calls neither setupDomain nor waitForIngressAndSetupDNS, so it makes no *)
(* certificate request and no DNS call; and its closing report names the   *)
(* load balancer's hostname when the ingress has one and no domain.        *)
C27_HappyPathOrderAndReport ==
    HappyPath =>
       /\ SelectSeq(order, IsHappyStep) = HappyOrder
       /\ rolloutWaits = 1 /\ fixRuns = 0 /\ ~diagnosed
       /\ ~domainSetup
       /\ dnsResult = "none"
       /\ "waitForIngressAndSetupDNS" \notin Begun
       /\ summary \in {"viaALB", "nothing"}
       /\ summary = "viaALB" <=> albHost = "host"

(* C27 witness: a happy path whose ingress had received its hostname.      *)
C27_Witness ==
    HappyPath /\ summary = "viaALB" /\ imageUri = "uri"

(* The applies of the manifests begun so far in this run.                  *)
ApplyRuns == Cardinality({ i \in 1..Len(order) : order[i] = "applyManifests" })

(* C29 as claimed: a rollout wait that follows a failed one comes with an  *)
(* apply of its own: two waits, two applies.                               *)
C29_RetryReapplies ==
    rolloutWaits = 2 => ApplyRuns = 2

(* C29 as amended: a failed rollout wait is retried as a wait alone, with  *)
(* no second apply.  There are at most two rollout waits, with exactly one *)
(* checkAndFixImagePullError between them; the corrective action runs only *)
(* after a failed wait; diagnostics run and the error is thrown exactly    *)
(* when both waits failed; and when the first wait succeeds neither the    *)
(* corrective action nor the diagnostics run.                              *)
C29_TwoWaitsOneFix ==
    /\ rolloutWaits <= 2 /\ fixRuns <= 1 /\ ApplyRuns <= 1
    /\ rolloutWaits = 2 => fixRuns = 1
    /\ fixRuns = 1 => waitFailures >= 1
    /\ failedStep = "rolloutWait" => waitFailures = 2 /\ diagnosed
    /\ diagnosed => failedStep = "rolloutWait"
    /\ (waitFailures = 2 /\ pc # "rollout.diagnose") => failedStep = "rolloutWait"
    /\ (rolloutWaits >= 1 /\ waitFailures = 0) => fixRuns = 0 /\ ~diagnosed

(* C29 witness: both waits failed, with the corrective action in between.  *)
C29_Witness ==
    rolloutWaits = 2 /\ waitFailures = 2 /\ fixRuns = 1 /\ diagnosed
        /\ outcome = "failed"

(* C28: once a step met a refused registry login or a registry URL of the  *)
(* wrong format, the run has ended as failed at that step.                 *)
C28_RefusalAbortsRun ==
    refused # "none"
        => /\ outcome = "failed"
           /\ failedStep \in {"buildAndPushImage", "setupECRImagePullSecret"}

-----------------------------------------------------------------------------
(* setupDomain and waitForIngressAndSetupDNS (aws-utils.ts).               *)
(*                                                                         *)
(* ACM holds up to MaxCerts certificates for the hostname, numbered in the *)
(* order they were requested; Cloudflare holds at most one CNAME record of *)
(* a name (a second POST is refused with code 81057).                      *)

CertStatuses == {"PENDING_VALIDATION", "ISSUED", "FAILED",
                 "VALIDATION_TIMED_OUT", "INACTIVE"}

TerminalNegative == {"FAILED", "VALIDATION_TIMED_OUT"}

(* What a later DescribeCertificate can report for a certificate that was  *)
(* last in the given status: a pending validation can end either way.      *)
Later(status) ==
    IF status = "PENDING_VALIDATION"
    THEN {"PENDING_VALIDATION", "ISSUED", "FAILED", "VALIDATION_TIMED_OUT"}
    ELSE {status}

FreeArns == { a \in 1..MaxCerts : acm[a] = "absent" }

ExistingArns == { a \in 1..MaxCerts : acm[a] # "absent" }

LowestFree == CHOOSE a \in FreeArns : \A b \in FreeArns : a <= b

(* setupCloudflareDNS, lines 1376-1462, on the CNAME record: nothing       *)
(* without credentials; POST creates the record; when it exists (81057)    *)
(* the record is updated in place.                                         *)
setupCloudflareDNS(record, credentials, postOk) ==
    IF ~credentials THEN record
    ELSE IF record = "none" THEN (IF postOk THEN "present" ELSE "none")
    ELSE "present"

(* setupCertificateValidation, lines 1154-1232, on the validation records: *)
(* created or updated for the certificate; every error is caught.          *)
setupCertificateValidation(records, arn, ok) ==
    IF ok THEN records \cup {arn} ELSE records

(* utils.ts lines 559-603: the ingress manifest.  Its listen-ports          *)
(* annotation is HTTP 80 only and it carries no certificate-arn and no     *)
(* ssl-redirect, whatever the domain configuration; with enableSSL and a   *)
(* certificateARN it has a tls section for the hostname.                   *)
generateIngressManifest(c) ==
    [listenPorts |-> {"HTTP"}, certificateArn |-> 0, sslRedirect |-> FALSE,
     tls |-> (c.enableSSL /\ c.certificateARN # 0)]

(* Lines 1594-1605, 1639-1650 and 1732-1743: the three kubectl annotate    *)
(* commands that enable HTTPS, in the order they are executed.             *)
HttpsAnnotations == <<"listen-ports", "certificate-arn", "ssl-redirect">>

(* A status test that also enables HTTPS for a pending certificate.        *)
EnablesHTTPSWhilePending(status) ==
    status \in {"ISSUED", "PENDING_VALIDATION"}

(* Lines 1590, 1633 and 1723: HTTPS is enabled when the status is ISSUED.  *)
EnablesHTTPS(status) == status = "ISSUED"

(* What the run has seen of a certificate: a DescribeCertificate that      *)
(* answered ISSUED for the ARN.                                            *)
Observe(arn, status) ==
    seenIssued' = IF status = "ISSUED" THEN seenIssued \cup {arn}
                                       ELSE seenIssued

(* The annotate commands stop at the first that fails (execSync throws):   *)
(* done of them succeeded.  The ingress then has the HTTPS listener when   *)
(* done >= 1 and the certificate-arn of the given ARN when done >= 2.      *)
Annotate(arn, done) ==
    /\ httpsCmds' = IF done > httpsCmds THEN done ELSE httpsCmds
    /\ annotArn' = IF done >= 2 THEN arn ELSE annotArn

DomFrame == UNCHANGED <<pipeVars, retryVars, probeVars, toolVars>>

ResetAlbLocals ==
    /\ albDNS' = FALSE
    /\ retries' = 0
    /\ albPolls' = 0
    /\ certificateError' = FALSE
    /\ fixApplied' = FALSE

ResetCertLocals ==
    /\ waitLoop' = 0
    /\ waitRetries' = 0
    /\ validated' = FALSE
    /\ wpolls' = 0
    /\ lastSeen' = "none"
    /\ polledAfterTerminal' = FALSE
    /\ newArn' = 0

(* deploy.ts lines 41-47 with setupDomain, lines 1003-1085.  The order of  *)
(* CertificateSummaryList is the service's, so find() can return any of    *)
(* the certificates of the hostname.                                       *)
SetupDomain ==
    /\ dpc = "setupDomain"
    /\ dpc' = "ingress"
    /\ IF ~dcfg.enableSSL \/ certArn # 0
       THEN UNCHANGED <<certArn, acm, valRecs, reqThisRun>>
       ELSE \E listOk \in BOOLEAN, requestOk \in BOOLEAN, recordsOk \in BOOLEAN :
              CASE ~listOk ->
                     UNCHANGED <<certArn, acm, valRecs, reqThisRun>>
                [] listOk /\ ExistingArns # {} ->
                     \E a \in ExistingArns :
                        /\ certArn' = a
                        /\ valRecs' =
                             IF acm[a] = "PENDING_VALIDATION" /\ dcfg.cloudflare
                             THEN setupCertificateValidation(valRecs, a, recordsOk)
                             ELSE valRecs
                        /\ UNCHANGED <<acm, reqThisRun>>
                [] listOk /\ ExistingArns = {} /\ ~requestOk ->
                     UNCHANGED <<certArn, acm, valRecs, reqThisRun>>
                [] OTHER ->
                     /\ acm' = [acm EXCEPT ![LowestFree] = "PENDING_VALIDATION"]
                     /\ certArn' = LowestFree
                     /\ reqThisRun' = reqThisRun + 1
                     /\ valRecs' =
                          IF dcfg.cloudflare
                          THEN setupCertificateValidation(valRecs, LowestFree,
                                                          recordsOk)
                          ELSE valRecs
    /\ UNCHANGED <<run, dcfg, reqRun1, extChange, cname>>
    /\ UNCHANGED <<albLocals, certLocals>>
    /\ UNCHANGED annotVars
    /\ DomFrame

(* Lines 1471-1473: the locals of the load balancer wait loop.             *)
WaitForIngress_Enter ==
    /\ dpc = "ingress"
    /\ dpc' = "alb.loop"
    /\ retries' = AlbRetries
    /\ albDNS' = FALSE
    /\ certificateError' = FALSE
    /\ UNCHANGED <<albPolls, fixApplied>>
    /\ UNCHANGED <<runVars, cloudVars, certLocals>>
    /\ UNCHANGED annotVars
    /\ DomFrame

(* One iteration of the load balancer wait loop, lines 1475-1537: the      *)
(* ingress has a hostname (break); or its events show a certificate error, *)
(* and when the annotations could be removed retries is set back to        *)
(* AlbRetriesAfterFix; then the 10 s sleep and retries--.                  *)
AlbPoll ==
    /\ dpc = "alb.loop"
    /\ retries > 0
    /\ albPolls < MaxAlbPolls
    /\ albPolls' = albPolls + 1
    /\ \E seen \in {"hostname", "nothing", "certificateError"},
          annotateOk \in BOOLEAN :
          CASE seen = "hostname" ->
                 /\ albDNS' = TRUE
                 /\ dpc' = "alb.found"
                 /\ UNCHANGED <<retries, certificateError, fixApplied>>
            [] seen = "certificateError" ->
                 /\ certificateError' = TRUE
                 /\ fixApplied' = (fixApplied \/ annotateOk)
                 /\ retries' = IF annotateOk THEN AlbRetriesAfterFix - 1
                                             ELSE retries - 1
                 /\ UNCHANGED <<albDNS, dpc>>
            [] OTHER ->
                 /\ retries' = retries - 1
                 /\ UNCHANGED <<albDNS, dpc, certificateError, fixApplied>>
    /\ UNCHANGED <<runVars, cloudVars, certLocals>>
    /\ UNCHANGED annotVars
    /\ DomFrame

(* Lines 1541-1572: the loop ran out of retries; null is returned.         *)
AlbGiveUp ==
    /\ dpc = "alb.loop"
    /\ retries = 0
    /\ dpc' = "returned"
    /\ ResetAlbLocals
    /\ UNCHANGED <<runVars, cloudVars, certLocals>>
    /\ UNCHANGED annotVars
    /\ DomFrame

(* Line 1574: the loop ended with a hostname.                              *)
AlbFound ==
    /\ dpc = "alb.found"
    /\ dpc' = "cert.check"
    /\ retries' = 0
    /\ albPolls' = 0
    /\ fixApplied' = FALSE
    /\ UNCHANGED <<albDNS, certificateError>>
    /\ UNCHANGED <<runVars, cloudVars, certLocals>>
    /\ UNCHANGED annotVars
    /\ DomFrame

(* The result of the load balancer wait loop, lines 1471-1574, in one      *)
(* step: a hostname was seen before the retries ran out, or null.          *)
WaitForALB_Outcome ==
    /\ dpc = "ingress"
    /\ \E found \in BOOLEAN, sawError \in BOOLEAN :
          IF found
          THEN /\ dpc' = "cert.check"
               /\ albDNS' = TRUE
               /\ certificateError' = sawError
          ELSE /\ dpc' = "returned"
               /\ UNCHANGED <<albDNS, certificateError>>
    /\ UNCHANGED <<retries, albPolls, fixApplied>>
    /\ UNCHANGED <<runVars, cloudVars, certLocals>>
    /\ UNCHANGED annotVars
    /\ DomFrame

(* A validation wait loop that keeps polling whatever status it is shown.  *)
BreaksOnTerminalNever(status) == FALSE

(* Lines 1654 and 1747: the wait loops break on a terminal negative status. *)
BreaksOnTerminal(status) == status \in TerminalNegative

(* Lines 1577-1622 and 1673-1679, 1773-1780: the status of the configured  *)
(* certificate decides the branch.  ISSUED: the HTTPS annotations and the  *)
(* proxied CNAME (errors caught at 1612).  PENDING_VALIDATION: with        *)
(* Cloudflare credentials the validation records and the first wait loop.  *)
(* FAILED or VALIDATION_TIMED_OUT: a new certificate is requested.  An     *)
(* error of DescribeCertificate is caught at line 1777.                    *)
CertCheck ==
    /\ dpc = "cert.check"
    /\ IF ~(dcfg.enableSSL /\ certArn # 0)
       THEN /\ dpc' = "dns"
            /\ UNCHANGED <<cloudVars, certLocals, annotVars>>
       ELSE \E describeOk \in BOOLEAN, done \in 0..Len(HttpsAnnotations),
               postOk \in BOOLEAN, recordsOk \in BOOLEAN :
              IF ~describeOk
              THEN /\ dpc' = "dns"
                   /\ UNCHANGED <<cloudVars, certLocals, annotVars>>
              ELSE /\ Observe(certArn, acm[certArn])
                   /\ CASE EnablesHTTPS(acm[certArn]) ->
                            /\ dpc' = "dns"
                            /\ Annotate(certArn, done)
                            /\ cname' = IF done = Len(HttpsAnnotations)
                                        THEN setupCloudflareDNS(
                                                cname, dcfg.cloudflare, postOk)
                                        ELSE cname
                            /\ UNCHANGED <<acm, valRecs, certLocals>>
                       [] acm[certArn] = "PENDING_VALIDATION" ->
                            /\ UNCHANGED <<httpsCmds, annotArn>>
                            /\ IF dcfg.cloudflare
                               THEN /\ valRecs' = setupCertificateValidation(
                                                     valRecs, certArn, recordsOk)
                                    /\ waitLoop' = 1
                                    /\ waitRetries' = CertWaitRetries
                                    /\ dpc' = "cert.wait"
                                    /\ UNCHANGED <<acm, cname, validated, wpolls,
                                                   lastSeen, polledAfterTerminal,
                                                   newArn>>
                               ELSE /\ dpc' = "dns"
                                    /\ UNCHANGED <<cloudVars, certLocals>>
                       [] acm[certArn] \in TerminalNegative ->
                            /\ dpc' = "cert.request"
                            /\ UNCHANGED <<cloudVars, certLocals,
                                           httpsCmds, annotArn>>
                       [] OTHER ->
                            /\ dpc' = "dns"
                            /\ UNCHANGED <<cloudVars, certLocals,
                                           httpsCmds, annotArn>>
    /\ UNCHANGED <<runVars, albLocals>>
    /\ DomFrame

(* Lines 1680-1712 and 1764-1772: ensureCAAForACM and RequestCertificate   *)
(* with a fresh IdempotencyToken; with Cloudflare credentials the          *)
(* validation records and the second wait loop.  An error (ACM refuses     *)
(* the request, as it does once its quota is used) is caught at 1769.      *)
RequestNewCertificate ==
    /\ dpc = "cert.request"
    /\ \E requestOk \in { b \in BOOLEAN : b => FreeArns # {} },
          recordsOk \in BOOLEAN :
          IF ~requestOk
          THEN /\ dpc' = "dns"
               /\ UNCHANGED <<acm, valRecs, certLocals, reqThisRun>>
          ELSE /\ acm' = [acm EXCEPT ![LowestFree] = "PENDING_VALIDATION"]
               /\ newArn' = LowestFree
               /\ reqThisRun' = reqThisRun + 1
               /\ IF dcfg.cloudflare
                  THEN /\ valRecs' = setupCertificateValidation(
                                        valRecs, LowestFree, recordsOk)
                       /\ waitLoop' = 2
                       /\ waitRetries' = CertWaitRetries
                       /\ dpc' = "cert.wait"
                  ELSE /\ dpc' = "dns"
                       /\ UNCHANGED <<valRecs, waitLoop, waitRetries>>
               /\ UNCHANGED <<validated, wpolls, lastSeen,
                               polledAfterTerminal>>
    /\ UNCHANGED <<run, dcfg, certArn, reqRun1, extChange, cname>>
    /\ UNCHANGED albLocals
    /\ UNCHANGED annotVars
    /\ DomFrame

(* One iteration of a validation wait loop, lines 1626-1665 (the           *)
(* configured certificate) and 1716-1756 (the new one): the 10 s sleep,    *)
(* DescribeCertificate, then ISSUED (annotations, break), a terminal       *)
(* negative status (break) or waitRetries--.  The second loop stores the   *)
(* new ARN in the config when it is ISSUED (line 1728).  An error of the   *)
(* calls leaves through the catch at 1777 or 1769.                         *)
CertWaitPoll ==
    /\ dpc = "cert.wait"
    /\ waitRetries > 0
    /\ LET arn == IF waitLoop = 1 THEN certArn ELSE newArn
       IN  \E status \in Later(acm[arn]), describeOk \in BOOLEAN,
              done \in 0..Len(HttpsAnnotations) :
              /\ wpolls' = wpolls + 1
              /\ polledAfterTerminal' =
                    (polledAfterTerminal \/ lastSeen \in TerminalNegative)
              /\ IF ~describeOk
                 THEN /\ dpc' = "dns"
                      /\ UNCHANGED <<acm, lastSeen, waitRetries, certArn,
                                     extChange, validated, annotVars>>
                 ELSE /\ acm' = [acm EXCEPT ![arn] = status]
                      /\ extChange' = (extChange \/ (run > 1 /\ status # acm[arn]))
                      /\ lastSeen' = status
                      /\ Observe(arn, status)
                      /\ CASE EnablesHTTPS(status) ->
                                /\ validated' = TRUE
                                /\ certArn' = IF waitLoop = 2 THEN newArn
                                                              ELSE certArn
                                /\ Annotate(arn, done)
                                /\ dpc' = "dns"
                                /\ UNCHANGED waitRetries
                           [] BreaksOnTerminal(status) ->
                                /\ dpc' = "dns"
                                /\ UNCHANGED <<waitRetries, certArn, validated,
                                               httpsCmds, annotArn>>
                           [] OTHER ->
                                /\ waitRetries' = waitRetries - 1
                                /\ UNCHANGED <<dpc, certArn, validated,
                                               httpsCmds, annotArn>>
    /\ UNCHANGED <<run, dcfg, reqThisRun, reqRun1, valRecs, cname>>
    /\ UNCHANGED <<waitLoop, newArn>>
    /\ UNCHANGED albLocals
    /\ DomFrame

(* Lines 1667-1672 and 1758-1763: waitRetries ran out.                     *)
CertWaitExhausted ==
    /\ dpc = "cert.wait"
    /\ waitRetries = 0
    /\ dpc' = "dns"
    /\ UNCHANGED <<runVars, cloudVars, albLocals, certLocals>>
    /\ UNCHANGED annotVars
    /\ DomFrame

(* Lines 1782-1803: the CNAME record; albDNS is returned either way.       *)
FinalDNS ==
    /\ dpc = "dns"
    /\ \E postOk \in BOOLEAN :
          cname' = setupCloudflareDNS(cname, dcfg.cloudflare, postOk)
    /\ dpc' = "returned"
    /\ ResetAlbLocals
    /\ ResetCertLocals
    /\ UNCHANGED <<runVars, acm, valRecs>>
    /\ UNCHANGED annotVars
    /\ DomFrame

(* The tool is run again with the configuration of the first run.          *)
NextRun ==
    /\ dpc = "returned"
    /\ run < MaxRuns
    /\ run' = run + 1
    /\ reqRun1' = IF run = 1 THEN reqThisRun ELSE reqRun1
    /\ certArn' = dcfg.certificateARN
    /\ reqThisRun' = 0
    /\ dpc' = "setupDomain"
    /\ UNCHANGED <<dcfg, extChange>>
    /\ UNCHANGED <<cloudVars, albLocals, certLocals>>
    /\ httpsCmds' = 0
    /\ annotArn' = 0
    /\ seenIssued' = {}
    /\ DomFrame

(* The certificates ACM can hold when the tool starts: none, or one in any *)
(* status; a configured ARN names a certificate that exists.               *)
DomainStart(c) ==
    /\ dcfg = c
    /\ certArn = c.certificateARN
    /\ \E first \in CertStatuses \cup {"absent"} :
          /\ c.certificateARN # 0 => first # "absent"
          /\ acm = [NoCerts EXCEPT ![1] = first]
    /\ run = 1
    /\ valRecs = {}
    /\ cname \in {"none", "present"}
    /\ AlbLocalsFresh
    /\ CertLocalsFresh
    /\ AnnotFresh
    /\ reqThisRun = 0
    /\ reqRun1 = 0
    /\ extChange = FALSE

InitIngress ==
    /\ PipelineIdle
    /\ RetryIdle
    /\ ProbesIdle
    /\ ToolsIdle
    /\ dpc = "ingress"
    /\ \E c \in DomainConfigs : DomainStart(c)

NextIngress ==
    \/ WaitForIngress_Enter
    \/ AlbPoll
    \/ AlbGiveUp
    \/ AlbFound
    \/ CertCheck
    \/ RequestNewCertificate
    \/ CertWaitPoll
    \/ CertWaitExhausted
    \/ FinalDNS

SpecIngress == InitIngress /\ [][NextIngress]_vars

InitIdem ==
    /\ PipelineIdle
    /\ RetryIdle
    /\ ProbesIdle
    /\ ToolsIdle
    /\ dpc = "setupDomain"
    /\ \E c \in DomainConfigs : DomainStart(c)

NextIdem ==
    \/ SetupDomain
    \/ WaitForALB_Outcome
    \/ CertCheck
    \/ RequestNewCertificate
    \/ CertWaitPoll
    \/ CertWaitExhausted
    \/ FinalDNS
    \/ NextRun

SpecIdem == InitIdem /\ [][NextIdem]_vars

-----------------------------------------------------------------------------
(* Properties of waitForIngressAndSetupDNS (checked under SpecIngress).    *)

TypeOKDomain ==
    /\ dpc \in {"idle", "setupDomain", "ingress", "alb.loop", "alb.found",
                "cert.check", "cert.request", "cert.wait", "dns", "returned"}
    /\ run \in 1..MaxRuns
    /\ dcfg \in DomainConfigs
    /\ certArn \in 0..MaxCerts
    /\ acm \in [1..MaxCerts -> CertStatuses \cup {"absent"}]
    /\ valRecs \subseteq 1..MaxCerts
    /\ cname \in {"none", "present"}
    /\ retries \in 0..AlbRetries
    /\ albPolls \in 0..MaxAlbPolls
    /\ waitLoop \in 0..2
    /\ waitRetries \in 0..CertWaitRetries
    /\ wpolls \in 0..CertWaitRetries
    /\ newArn \in 0..MaxCerts
    /\ reqThisRun \in 0..MaxCerts
    /\ reqRun1 \in 0..MaxCerts
    /\ httpsCmds \in 0..Len(HttpsAnnotations)
    /\ annotArn \in 0..MaxCerts
    /\ seenIssued \subseteq 1..MaxCerts

(* C3: when the configured certificate was first seen PENDING_VALIDATION   *)
(* and its wait loop then saw five times PENDING_VALIDATION and then       *)
(* VALIDATION_TIMED_OUT or FAILED, the call has requested a new            *)
(* certificate by the time it sets up the DNS record.                      *)
C3_TerminalInWaitRequestsNew ==
    (dpc = "dns" /\ waitLoop = 1 /\ wpolls = 6 /\ lastSeen \in TerminalNegative)
        => reqThisRun >= 1

(* C5: the load balancer wait loop performs no more than 60 polls, or no   *)
(* more than 90 when the certificate annotations were removed.             *)
C5_AlbLoopBounded ==
    albPolls <= IF fixApplied THEN AlbRetries + AlbRetriesAfterFix
                              ELSE AlbRetries

(* C7: a validation wait loop never polls again after a poll that saw      *)
(* FAILED or VALIDATION_TIMED_OUT: once such a status was seen the loop is *)
(* over, so after PENDING_VALIDATION, PENDING_VALIDATION, FAILED the loop  *)
(* has ended with exactly three DescribeCertificate calls.                 *)
C7_FailFastOnTerminal ==
    /\ ~polledAfterTerminal
    /\ lastSeen \in TerminalNegative => dpc # "cert.wait"

C7_Witness ==
    /\ dpc = "dns"
    /\ waitLoop \in {1, 2}
    /\ wpolls = 3
    /\ lastSeen = "FAILED"

(* Lines 1667 and 1758: what the code after a wait loop reads of it.       *)
WaitOutcome == IF validated THEN "validated" ELSE "notValidated"

(* Lines 1661-1672: the outcome of a loop whose waitRetries ran out.       *)
OutcomeAtExhaustion == "notValidated"

(* C17: a validation wait loop that ended on FAILED or                     *)
(* VALIDATION_TIMED_OUT leaves an outcome other than the one it leaves     *)
(* when its retries run out on a pending certificate.                      *)
C17_TerminalDiffersFromExhaustion ==
    (dpc = "dns" /\ waitLoop # 0 /\ lastSeen \in TerminalNegative)
        => WaitOutcome # OutcomeAtExhaustion

(* C18: once config.domain.certificateARN holds a value, no step of the    *)
(* call assigns it another value.                                          *)
C18_CertificateArnWriteOnce ==
    [][certArn # 0 => certArn' = certArn]_vars

(* C22: the ingress manifest has an HTTP-only listener and no certificate, *)
(* and whenever the run has applied an HTTPS annotation to the ingress it  *)
(* has observed a certificate in status ISSUED before; the ARN it wrote as *)
(* certificate-arn is one it observed ISSUED, and the last status it saw   *)
(* of that ARN is ISSUED, not pending, failed or timed out.                *)
C22_CertificateBeforeHttps ==
    /\ \A c \in DomainConfigs :
          /\ generateIngressManifest(c).listenPorts = {"HTTP"}
          /\ generateIngressManifest(c).certificateArn = 0
          /\ ~generateIngressManifest(c).sslRedirect
    /\ httpsCmds > 0 => seenIssued # {}
    /\ annotArn # 0 => /\ annotArn \in seenIssued
                       /\ acm[annotArn] = "ISSUED"

C22_Witness ==
    /\ dpc = "dns"
    /\ waitLoop = 2
    /\ httpsCmds = Len(HttpsAnnotations)
    /\ annotArn = newArn
    /\ annotArn # dcfg.certificateARN

-----------------------------------------------------------------------------
(* Properties of two runs in succession (checked under SpecIdem).          *)

(* C8: when the first run requested a certificate for the hostname and     *)
(* nothing changed in ACM after it ended, the second run issues no         *)
(* RequestCertificate for the hostname.                                    *)
C8_SecondRunCreatesNothing ==
    (run = 2 /\ ~extChange /\ reqRun1 >= 1) => reqThisRun = 0

(* C19: within a run no step changes a field of the configuration: the    *)
(* certificateARN of the domain configuration stays as it was passed.      *)
C19_ConfigNeverMutated ==
    [][run' = run => certArn' = certArn]_vars

-----------------------------------------------------------------------------
(* applyWithRetry, lines 1253-1320, with its clock.  Time is counted in    *)
(* seconds since startTime and passes in the sleeps only: the commands     *)
(* take no time, which is the least the elapsed times can be.              *)

Never == 2 * MaxTotalWait

ApplyParams == { [maxRetries |-> 0, maxWaitPerRetry |-> 60],
                 [maxRetries |-> 1, maxWaitPerRetry |-> 60],
                 [maxRetries |-> 2, maxWaitPerRetry |-> 9],
                 [maxRetries |-> 10, maxWaitPerRetry |-> 60],
                 [maxRetries |-> ApplyMaxRetries, maxWaitPerRetry |-> 10000] }

ReadyTimes == {0, 6, 30, Never}

ApplyEnvs == { e \in [readyAt : ReadyTimes, applyOkAt : ReadyTimes,
                      otherError : BOOLEAN] : e.readyAt <= e.applyOkAt }

(* checkWebhookReady, lines 1234-1251, against a webhook service that has  *)
(* endpoints from readyAt on.                                              *)
checkWebhookReady(now) == now >= awEnv.readyAt

(* Line 1266.                                                              *)
RetryCondition(i, elapsed) ==
    i < awParams.maxRetries - 1 /\ elapsed < MaxTotalWait

RetryFrame == UNCHANGED <<pipeVars, domVars, probeVars, toolVars>>

(* The result of execSync at line 1259 at the given time: the apply       *)
(* fails with the webhook error until applyOkAt and from then on either    *)
(* succeeds or fails with another error.                                   *)
ApplyResult(now) ==
    IF now < awEnv.applyOkAt THEN "webhook"
    ELSE IF awEnv.otherError THEN "other" ELSE "ok"

RetriesAny(result) == result # "ok"

(* Line 1265: the test on the error message.                               *)
Retries(result) == result = "webhook"

(* Lines 1257-1266 and 1302-1317: one apply.  It succeeds, fails with      *)
(* another error (rethrown), or fails with the webhook error and is then   *)
(* either waited on or given up.                                           *)
applyWithRetry_Apply ==
    /\ awpc = "attempt"
    /\ ai < awParams.maxRetries
    /\ attempts' = attempts + 1
    /\ lastResult' = ApplyResult(clock)
    /\ CASE ApplyResult(clock) = "ok" ->
               /\ awpc' = "returned"
               /\ UNCHANGED <<totalElapsed, aj, waitStartTime, webhookReady>>
         [] ApplyResult(clock) # "ok" /\ ~Retries(ApplyResult(clock)) ->
               /\ awpc' = "threw"
               /\ totalElapsed' = clock
               /\ UNCHANGED <<aj, waitStartTime, webhookReady>>
         [] OTHER ->
               /\ totalElapsed' = clock
               /\ IF RetryCondition(ai, clock)
                  THEN /\ awpc' = "wait"
                       /\ aj' = 0
                       /\ waitStartTime' = clock
                       /\ webhookReady' = FALSE
                  ELSE /\ awpc' = "exhausted"
                       /\ UNCHANGED <<aj, waitStartTime, webhookReady>>
    /\ UNCHANGED <<awParams, awEnv, clock, ai, probes>>
    /\ RetryFrame

(* Line 1257 with i = maxRetries and line 1320: the loop is left and the    *)
(* function ends without a value and without an error.                     *)
applyWithRetry_LoopEnd ==
    /\ awpc = "attempt"
    /\ ai >= awParams.maxRetries
    /\ awpc' = "returned"
    /\ UNCHANGED <<awParams, awEnv, clock, ai, aj, totalElapsed,
                   waitStartTime, webhookReady, attempts, probes, lastResult>>
    /\ RetryFrame

(* One iteration of the inner loop, lines 1273-1293.                       *)
applyWithRetry_WaitIter ==
    /\ awpc = "wait"
    /\ LET waitElapsed == clock - waitStartTime
       IN  CASE aj >= awParams.maxWaitPerRetry \div ProbeSleep ->
                  /\ awpc' = "afterWait"
                  /\ UNCHANGED <<clock, aj, webhookReady, probes>>
             [] aj < awParams.maxWaitPerRetry \div ProbeSleep
                  /\ totalElapsed + waitElapsed >= MaxTotalWait ->
                  /\ awpc' = "afterWait"
                  /\ UNCHANGED <<clock, aj, webhookReady, probes>>
             [] OTHER ->
                  /\ probes' = probes + 1
                  /\ IF checkWebhookReady(clock)
                     THEN /\ webhookReady' = TRUE
                          /\ clock' = clock + ReadySleep
                          /\ awpc' = "afterWait"
                          /\ UNCHANGED aj
                     ELSE /\ clock' = clock + ProbeSleep
                          /\ aj' = aj + 1
                          /\ UNCHANGED <<awpc, webhookReady>>
    /\ UNCHANGED <<awParams, awEnv, ai, totalElapsed, waitStartTime, attempts,
                   lastResult>>
    /\ RetryFrame

(* Lines 1295-1301 and the i++ of line 1257.                               *)
applyWithRetry_AfterWait ==
    /\ awpc = "afterWait"
    /\ clock' = IF webhookReady THEN clock ELSE clock + RetrySleep
    /\ ai' = ai + 1
    /\ awpc' = "attempt"
    /\ UNCHANGED <<awParams, awEnv, aj, totalElapsed, waitStartTime,
                   webhookReady, attempts, probes, lastResult>>
    /\ RetryFrame

InitApply ==
    /\ PipelineIdle
    /\ DomainIdle
    /\ ProbesIdle
    /\ ToolsIdle
    /\ awpc = "attempt"
    /\ awParams \in ApplyParams
    /\ awEnv \in ApplyEnvs
    /\ clock = 0
    /\ ai = 0
    /\ aj = 0
    /\ totalElapsed = 0
    /\ waitStartTime = 0
    /\ webhookReady = FALSE
    /\ attempts = 0
    /\ probes = 0
    /\ lastResult = "none"

NextApply ==
    \/ applyWithRetry_Apply
    \/ applyWithRetry_LoopEnd
    \/ applyWithRetry_WaitIter
    \/ applyWithRetry_AfterWait

SpecApply == InitApply /\ [][NextApply]_vars

(* C6: against an apply that always fails with the webhook error and a     *)
(* probe that is never ready, the call ends in the exhausted error after   *)
(* at most maxRetries applies and maxRetries x floor(maxWaitPerRetry / 3)  *)
(* probes, having waited no longer than MaxTotalWait seconds.              *)
C6_BudgetRespected ==
    (awEnv.readyAt = Never /\ awEnv.applyOkAt = Never /\ awpc = "exhausted") =>
        /\ attempts <= awParams.maxRetries
        /\ probes <= awParams.maxRetries
                        * (awParams.maxWaitPerRetry \div ProbeSleep)
        /\ clock <= MaxTotalWait

(* C33: only the webhook error is retried.  An apply that failed with     *)
(* another error has thrown at once, so that no probe and no apply follow  *)
(* it; the rethrown error is the only one of that kind; and the webhook    *)
(* error is surfaced, as the exhausted error, only when the attempts or    *)
(* the total time are used up.                                             *)
C33_OnlyWebhookRetried ==
    /\ lastResult = "other" => awpc = "threw"
    /\ awpc = "threw" => lastResult = "other"
    /\ awpc = "exhausted" =>
         /\ lastResult = "webhook"
         /\ ~RetryCondition(ai, totalElapsed)
    /\ awpc \in {"wait", "afterWait"} => lastResult = "webhook"

(* C33 witness: another error, met after webhook errors that were waited   *)
(* on, has been rethrown.                                                  *)
C33_Witness ==
    /\ awpc = "threw"
    /\ attempts >= 2
    /\ probes >= 1

(* C34: applyWithRetry returns normally only if one of its apply attempts  *)
(* succeeded.                                                              *)
C34_ReturnsOnlyAfterSuccess ==
    awpc = "returned" => lastResult = "ok"

-----------------------------------------------------------------------------
(* The readiness probes, applied to a snapshot of the cluster.             *)
(*                                                                         *)
(* A line of `kubectl get nodes --no-headers` is represented by the text   *)
(* of its STATUS column, a sequence of characters; the other columns are   *)
(* taken not to contain the pattern.                                       *)

ReadyText == <<"R", "e", "a", "d", "y">>

NotReadyText == <<"N", "o", "t", "R", "e", "a", "d", "y">>

UnknownText == <<"U", "n", "k", "n", "o", "w", "n">>

NodeStatusTexts == {ReadyText, NotReadyText, UnknownText}

NodeLists == UNION { [1..n -> NodeStatusTexts] : n \in 0..MaxNodes }

(* grep: the line has the pattern as a substring.                          *)
Contains(line, pattern) ==
    \E k \in 0..(Len(line) - Len(pattern)) :
       SubSeq(line, k + 1, k + Len(pattern)) = pattern

(* grep -c.                                                                *)
GrepCount(lines, pattern) ==
    Cardinality({ i \in DOMAIN lines : Contains(lines[i], pattern) })

(* Lines 72-76 and 134-138: `grep -c Ready` over the node lines.           *)
ReadyCount(lines) == GrepCount(lines, ReadyText)

ReplicaFields == { f \in [present : BOOLEAN, count : 0..MaxReplicas] :
                     ~f.present => f.count = 0 }

(* A deployment probe that answers true once and false from then on.       *)
DeploymentProbeOnce(field) ==
    pollNo = 1 /\ field.present /\ checkALBDeploymentReady(field.count)

(* checkALBDeploymentReady, lines 581-591, on the jsonpath output: an      *)
(* absent field prints nothing, which is neither '1' nor '2'.              *)
DeploymentProbe(field) ==
    field.present /\ checkALBDeploymentReady(field.count)

(* A webhook probe that does not look at the endpoints.                    *)
checkWebhookReadyNoEndpoints(phase, field, ips, throws) ==
    checkALBPodReady(phase) /\ DeploymentProbe(field)

(* checkWebhookReady, lines 1234-1251, on a snapshot: false unless the pod *)
(* and the deployment probes are true; then the endpoints call, whose      *)
(* error gives false, and whose output must not be empty.                  *)
checkWebhookReadyOn(phase, field, ips, throws) ==
    IF ~(checkALBPodReady(phase) /\ DeploymentProbe(field)) THEN FALSE
    ELSE IF throws THEN FALSE
    ELSE ips > 0

Verdict(b) == IF b THEN "true" ELSE "false"

ProbeFrame == UNCHANGED <<pipeVars, domVars, retryVars, toolVars>>

ProbeInputs == <<nodes, replicaField, podPhase, endpointIps, probeThrows>>

(* Lines 71-83 and 140-143: the cluster is taken as ready when readyCount  *)
(* is positive.                                                            *)
ClassifyNodes ==
    /\ nodeVerdict = "none"
    /\ nodeVerdict' = Verdict(ReadyCount(nodes) > 0)
    /\ UNCHANGED <<ProbeInputs, deployVerdict, webhookVerdict>>
    /\ UNCHANGED <<pollNo, firstVerdicts>>
    /\ ProbeFrame

ProbeDeployment ==
    /\ deployVerdict = "none"
    /\ deployVerdict' = Verdict(DeploymentProbe(replicaField))
    /\ UNCHANGED <<ProbeInputs, nodeVerdict, webhookVerdict>>
    /\ UNCHANGED <<pollNo, firstVerdicts>>
    /\ ProbeFrame

ProbeWebhook ==
    /\ webhookVerdict = "none"
    /\ webhookVerdict' = Verdict(checkWebhookReadyOn(podPhase, replicaField,
                                                     endpointIps, probeThrows))
    /\ UNCHANGED <<ProbeInputs, nodeVerdict, deployVerdict>>
    /\ UNCHANGED <<pollNo, firstVerdicts>>
    /\ ProbeFrame

(* The wait loops call the probes again in their next iteration (lines     *)
(* 131-143, 601-616, 1279-1282); here the cluster has not changed between  *)
(* the two polls.                                                          *)
PollAgain ==
    /\ pollNo = 1
    /\ nodeVerdict # "none"
    /\ deployVerdict # "none"
    /\ webhookVerdict # "none"
    /\ pollNo' = 2
    /\ firstVerdicts' = [node |-> nodeVerdict, deployment |-> deployVerdict,
                         webhook |-> webhookVerdict]
    /\ nodeVerdict' = "none"
    /\ deployVerdict' = "none"
    /\ webhookVerdict' = "none"
    /\ UNCHANGED ProbeInputs
    /\ ProbeFrame

InitProbes ==
    /\ PipelineIdle
    /\ DomainIdle
    /\ RetryIdle
    /\ ToolsIdle
    /\ nodes \in NodeLists
    /\ replicaField \in ReplicaFields
    /\ podPhase \in {"Running", "Pending", "none"}
    /\ endpointIps \in 0..MaxEndpoints
    /\ probeThrows \in BOOLEAN
    /\ nodeVerdict = "none"
    /\ deployVerdict = "none"
    /\ webhookVerdict = "none"
    /\ pollNo = 1
    /\ firstVerdicts = NoVerdicts

NextProbes ==
    \/ ClassifyNodes
    \/ ProbeDeployment
    \/ ProbeWebhook
    \/ PollAgain

SpecProbes == InitProbes /\ [][NextProbes]_vars

(* C11: the node check concludes "ready" exactly when at least one node    *)
(* has the status Ready; NotReady nodes do not count.                      *)
C11_ReadyIffSomeNodeReady ==
    nodeVerdict # "none" =>
       (nodeVerdict = "true" <=> \E i \in DOMAIN nodes : nodes[i] = ReadyText)

(* C12: checkALBDeploymentReady returns true exactly when readyReplicas is *)
(* present and at least 1.                                                 *)
C12_ReadyIffReplicasAtLeastOne ==
    deployVerdict # "none" =>
       (deployVerdict = "true" <=>
           (replicaField.present /\ replicaField.count >= 1))

(* C13: checkWebhookReady returns true only if the deployment has a ready  *)
(* replica and the webhook service has at least one endpoint address and   *)
(* no probe call failed; with an empty endpoint list, or an error, it      *)
(* returns false.                                                          *)
C13_WebhookNeedsDeploymentAndEndpoints ==
    /\ webhookVerdict = "true" =>
          /\ replicaField.present /\ replicaField.count >= 1
          /\ endpointIps >= 1
          /\ ~probeThrows
    /\ (webhookVerdict # "none" /\ (endpointIps = 0 \/ probeThrows))
          => webhookVerdict = "false"

C13_Witness ==
    /\ webhookVerdict = "false"
    /\ checkALBPodReady(podPhase)
    /\ DeploymentProbe(replicaField)
    /\ endpointIps = 0
    /\ ~probeThrows
-----------------------------------------------------------------------------
(* The diagnostics report, diagnose.ts: runDiagnostics (lines 129-154)     *)
(* calls checkPermissions, checkSystemHealth and diagnoseDeploymentFailure *)
(* in turn; deployToEKS calls diagnoseDeploymentFailure alone (deploy.ts   *)
(* line 147).  Every collection call is an execSync that either answers or *)
(* throws.                                                                 *)

(* Lines 9-13: the components checkSystemHealth goes through.              *)
systemComponents == <<"aws-node", "coredns", "kube-proxy">>

DiagCalls == {"canI", "identity", "pods", "newestPod", "events", "logs"}
                \cup { systemComponents[i] : i \in 1..Len(systemComponents) }

(* The report with the try block of lines 106-126 taken away.              *)
EnclosingTryWithoutOuter ==
    [c \in DiagCalls |->
        CASE c = "events" -> "none"
          [] c = "newestPod" -> "none"
          [] c = "logs" -> "logs"
          [] OTHER -> "own"]

(* The try block a call is executed in: its own (lines 18-34, 46-56,       *)
(* 59-67, 74-103, 118-122), or for the newest-pod lookup and the events    *)
(* the one of lines 106-126, which also encloses the logs' block.          *)
EnclosingTry ==
    [c \in DiagCalls |->
        CASE c \in {"newestPod", "events"} -> "outer"
          [] c = "logs" -> "logs"
          [] OTHER -> "own"]

(* Where the report goes on after the call threw: after the catch of the   *)
(* enclosing try block, or out of the function when there is none.         *)
AfterThrow(call, next) ==
    CASE EnclosingTry[call] = "none" -> "threw"
      [] EnclosingTry[call] = "outer" -> "return"
      [] OTHER -> next

(* One collection call: executed, and when it threw, recorded as failed;   *)
(* next is the position after the call's statement.                        *)
Collect(call, threw, next) ==
    /\ dgAttempted' = dgAttempted \cup {call}
    /\ dgFailed' = IF threw THEN dgFailed \cup {call} ELSE dgFailed
    /\ LET to == IF threw THEN AfterThrow(call, next) ELSE next
       IN  /\ dgpc' = IF to \in {"threw", "return"}
                      THEN (IF to = "return" /\ dgMode = "runDiagnostics"
                            THEN "recommend" ELSE "done")
                      ELSE to
           /\ dgResult' = CASE to = "threw" -> "threw"
                            [] to = "return" /\ dgMode = "deployToEKS" ->
                                 "returned"
                            [] OTHER -> dgResult

DiagFrame == UNCHANGED <<pipeVars, domVars, retryVars, probeVars, delVars,
                         healthVars, cfVars>>

(* checkPermissions, lines 46-56: kubectl auth can-i create pods.          *)
CheckPermissions_CanI ==
    /\ dgpc = "canI"
    /\ \E answer \in {"yes", "no", "error"} :
          Collect("canI", answer = "error", "identity")
    /\ UNCHANGED <<dgMode, hi, hasIssues>>
    /\ DiagFrame

(* checkPermissions, lines 59-67: aws sts get-caller-identity.             *)
CheckPermissions_Identity ==
    /\ dgpc = "identity"
    /\ \E threw \in BOOLEAN : Collect("identity", threw, "health")
    /\ hi' = 1
    /\ UNCHANGED <<dgMode, hasIssues>>
    /\ DiagFrame

(* checkSystemHealth, lines 17-35: one iteration of the loop over the      *)
(* components; hasIssues is set when a pod of the component is not         *)
(* Running.                                                                *)
CheckSystemHealth_Component ==
    /\ dgpc = "health"
    /\ hi \in 1..Len(systemComponents)
    /\ \E pods \in {"Running", "", "Pending", "error"} :
          /\ Collect(systemComponents[hi], pods = "error",
                     IF hi < Len(systemComponents) THEN "health" ELSE "pods")
          /\ hasIssues' = (hasIssues \/ pods = "Pending")
    /\ hi' = hi + 1
    /\ UNCHANGED dgMode
    /\ DiagFrame

(* diagnoseDeploymentFailure, lines 73-103: kubectl get pods -o wide.      *)
Diagnose_PodStatus ==
    /\ dgpc = "pods"
    /\ \E threw \in BOOLEAN : Collect("pods", threw, "newestPod")
    /\ UNCHANGED <<dgMode, hi, hasIssues>>
    /\ DiagFrame

(* Lines 108-113: the name of the newest pod; nothing more is collected    *)
(* when there is none.                                                     *)
Diagnose_NewestPod ==
    /\ dgpc = "newestPod"
    /\ \E podName \in {"pod", "", "error"} :
          Collect("newestPod", podName = "error",
                  IF podName = "pod" THEN "events" ELSE "return")
    /\ UNCHANGED <<dgMode, hi, hasIssues>>
    /\ DiagFrame

(* Line 115: kubectl describe pod | grep -A 10 "Events:".                  *)
Diagnose_Events ==
    /\ dgpc = "events"
    /\ \E threw \in BOOLEAN : Collect("events", threw, "logs")
    /\ UNCHANGED <<dgMode, hi, hasIssues>>
    /\ DiagFrame

(* Lines 117-122: kubectl logs --tail=20 in its own try block.             *)
Diagnose_Logs ==
    /\ dgpc = "logs"
    /\ \E threw \in BOOLEAN : Collect("logs", threw, "return")
    /\ UNCHANGED <<dgMode, hi, hasIssues>>
    /\ DiagFrame

(* runDiagnostics, lines 152-153: the recommendation, then the return.     *)
RunDiagnostics_Recommend ==
    /\ dgpc = "recommend"
    /\ dgpc' = "done"
    /\ dgResult' = "returned"
    /\ UNCHANGED <<dgMode, hi, hasIssues, dgAttempted, dgFailed>>
    /\ DiagFrame

InitDiag ==
    /\ PipelineIdle
    /\ DomainIdle
    /\ RetryIdle
    /\ ProbesIdle
    /\ DeleteIdle
    /\ HealthIdle
    /\ CloudflareIdle
    /\ dgMode \in {"runDiagnostics", "deployToEKS"}
    /\ dgpc = IF dgMode = "runDiagnostics" THEN "canI" ELSE "pods"
    /\ hi = 0
    /\ hasIssues = FALSE
    /\ dgAttempted = {}
    /\ dgFailed = {}
    /\ dgResult = "none"

NextDiag ==
    \/ CheckPermissions_CanI
    \/ CheckPermissions_Identity
    \/ CheckSystemHealth_Component
    \/ Diagnose_PodStatus
    \/ Diagnose_NewestPod
    \/ Diagnose_Events
    \/ Diagnose_Logs
    \/ RunDiagnostics_Recommend

SpecDiag == InitDiag /\ [][NextDiag]_vars

TypeOKDiag ==
    /\ dgMode \in {"runDiagnostics", "deployToEKS"}
    /\ dgpc \in {"canI", "identity", "health", "pods", "newestPod", "events",
                  "logs", "recommend", "done"}
    /\ hi \in 0..(Len(systemComponents) + 1)
    /\ hasIssues \in BOOLEAN
    /\ dgAttempted \subseteq DiagCalls
    /\ dgFailed \subseteq dgAttempted
    /\ dgResult \in {"none", "returned", "threw"}

(* C23: the report never throws, whichever collection calls fail: it ends  *)
(* by returning, and until then it is still running.                       *)
C23_ReportAlwaysReturns ==
    /\ dgResult # "threw"
    /\ dgpc = "done" => dgResult = "returned"

C23_Witness ==
    /\ dgMode = "runDiagnostics"
    /\ dgResult = "returned"
    /\ {"canI", "identity", "coredns", "pods", "events"} \subseteq dgFailed

(* C24: when the report has ended and the events of the newest pod were    *)
(* asked for, its logs were asked for as well, whether or not the events   *)
(* call failed (and the pod status was asked for in every report).         *)
C24_CollectionCallsIndependent ==
    (dgpc = "done" /\ "events" \in dgAttempted)
        => {"pods", "events", "logs"} \subseteq dgAttempted

-----------------------------------------------------------------------------
(* The delete command (the program.command('delete') action, lines         *)
(* 223-635 of the command-line source), invoked up to MaxRuns times on the *)
(* same application.  The selected namespace holds the deployments of this *)
(* application only; the user selects the same namespace each time.        *)

Range(seq) == { seq[i] : i \in 1..Len(seq) }

(* A command that asks about the namespace whatever its name.              *)
AsksNamespaceAlways(ns) == TRUE

(* Line 495: the namespace question is asked for a namespace other than    *)
(* default.                                                                *)
AsksNamespace(ns) == ns # "default"

(* The end of the action: return, or process.exit(1) from the catch at     *)
(* lines 627-634.                                                          *)
DeleteEnds(result) ==
    /\ delpc' = "done"
    /\ delResult' = result

DeleteFrame == UNCHANGED <<pipeVars, domVars, retryVars, probeVars, diagVars,
                           healthVars, cfVars>>

(* Lines 232-258: checkPrerequisites and the list of namespaces; an error  *)
(* of either is thrown to the catch at line 627, and the action returns    *)
(* when the cluster lists no namespace at all.                             *)
Delete_ListNamespaces ==
    /\ delpc = "start"
    /\ \E prerequisitesOk \in BOOLEAN, listOk \in BOOLEAN,
          namespaces \in {0, 1} :
          CASE ~(prerequisitesOk /\ listOk) -> DeleteEnds("failed")
            [] prerequisitesOk /\ listOk /\ namespaces = 0 /\ ~nsPresent ->
                 DeleteEnds("returned")
            [] OTHER -> /\ delpc' = "listDeployments"
                        /\ UNCHANGED delResult
    /\ UNCHANGED <<delRun, delNs, hasCF, ri, present, nsPresent, dnsRecord,
                   delOrder, delConfirmed, declined, attemptsRun1, leftRun1>>
    /\ DeleteFrame

(* Lines 292-342: kubectl auth can-i and the list of deployments of the    *)
(* namespace (errors thrown); the action returns when the list is empty.   *)
Delete_ListDeployments ==
    /\ delpc = "listDeployments"
    /\ \E authOk \in BOOLEAN, listOk \in BOOLEAN :
          LET deployments == IF nsPresent /\ present["deployment"]
                             THEN {"app"} ELSE {}
          IN  CASE ~(authOk /\ listOk) -> DeleteEnds("failed")
                [] authOk /\ listOk /\ deployments = {} ->
                     DeleteEnds("returned")
                [] OTHER -> /\ delpc' = "confirm"
                            /\ UNCHANGED delResult
    /\ UNCHANGED <<delRun, delNs, hasCF, ri, present, nsPresent, dnsRecord,
                   delOrder, delConfirmed, declined, attemptsRun1, leftRun1>>
    /\ DeleteFrame

ProceedsUnlessCancel(answer) == answer # "Cancel"

(* Line 362: the command goes on unless the user selected Cancel or did    *)
(* not answer the confirmation with yes.                                   *)
Proceeds(answer) == ~(answer = "Cancel" \/ answer # "yes")

(* Lines 345-365: the user selects the deployment or Cancel, and confirms. *)
Delete_Confirm ==
    /\ delpc = "confirm"
    /\ \E answer \in {"Cancel", "no", "yes"} :
          /\ delConfirmed' = IF answer = "yes"
                             THEN delConfirmed \cup {"resources"}
                             ELSE delConfirmed
          /\ declined' = (declined \/ answer # "yes")
          /\ IF Proceeds(answer)
             THEN /\ delpc' = "resources"
                  /\ ri' = 1
                  /\ UNCHANGED delResult
             ELSE /\ DeleteEnds("returned")
                  /\ UNCHANGED ri
    /\ UNCHANGED <<delRun, delNs, hasCF, present, nsPresent, dnsRecord,
                   delOrder, attemptsRun1, leftRun1>>
    /\ DeleteFrame

(* Lines 407-486: one iteration of the loop.  kubectl delete with          *)
(* --ignore-not-found ends with code 0 (the resource is gone, or was not   *)
(* there), with an error, or is killed by the 35 s timer; after a timeout  *)
(* the resource may be gone or still there.  Every ended is caught in    *)
(* the iteration and the loop goes on.                                     *)
Delete_Resource ==
    /\ delpc = "resources"
    /\ ri \in 1..Len(resources)
    /\ \E ended \in {"code0", "error", "timeout"}, gone \in BOOLEAN :
          present' = [present EXCEPT ![resources[ri]] =
                       CASE ended = "code0" -> FALSE
                         [] ended = "timeout" -> (@ /\ ~gone)
                         [] OTHER -> @]
    /\ delOrder' = Append(delOrder, resources[ri])
    /\ ri' = ri + 1
    /\ delpc' = IF ri < Len(resources) THEN "resources"
                ELSE IF AsksNamespace(delNs) THEN "namespace" ELSE "dns"
    /\ UNCHANGED <<delRun, delNs, hasCF, nsPresent, dnsRecord, delConfirmed,
                   declined, delResult, attemptsRun1, leftRun1>>
    /\ DeleteFrame

(* Lines 496-583: the namespace question and kubectl delete namespace;     *)
(* its errors and its timeout are caught.  A deleted namespace takes       *)
(* everything in it with it.                                               *)
Delete_Namespace ==
    /\ delpc = "namespace"
    /\ delpc' = "dns"
    /\ \E deleteNamespace \in BOOLEAN, ended \in {"code0", "error", "timeout"} :
          IF deleteNamespace
          THEN /\ delConfirmed' = delConfirmed \cup {"namespace"}
               /\ delOrder' = Append(delOrder, "namespace")
               /\ nsPresent' = (nsPresent /\ ended # "code0")
               /\ present' = IF nsPresent'
                            THEN present
                            ELSE [r \in ResourceTypes |-> FALSE]
          ELSE UNCHANGED <<delConfirmed, delOrder, nsPresent, present>>
    /\ UNCHANGED <<delRun, delNs, hasCF, ri, dnsRecord, declined, delResult,
                   attemptsRun1, leftRun1>>
    /\ DeleteFrame

(* Lines 586-626: with Cloudflare credentials in the saved configuration   *)
(* the DNS question and deleteCloudflareRecord (aws-utils.ts lines         *)
(* 1805-1843, which catches its errors); then the action returns.          *)
Delete_DNS ==
    /\ delpc = "dns"
    /\ DeleteEnds("returned")
    /\ \E deleteDNS \in BOOLEAN, ok \in BOOLEAN :
          IF hasCF /\ deleteDNS
          THEN /\ delConfirmed' = delConfirmed \cup {"dns"}
               /\ delOrder' = Append(delOrder, "dns")
               /\ dnsRecord' = (dnsRecord /\ ~ok)
          ELSE UNCHANGED <<delConfirmed, delOrder, dnsRecord>>
    /\ UNCHANGED <<delRun, delNs, hasCF, ri, present, nsPresent, declined,
                   attemptsRun1, leftRun1>>
    /\ DeleteFrame

(* The user runs the delete command again.                                 *)
Delete_Rerun ==
    /\ delpc = "done"
    /\ delRun < MaxRuns
    /\ delRun' = delRun + 1
    /\ attemptsRun1' = IF delRun = 1 THEN Range(delOrder) ELSE attemptsRun1
    /\ leftRun1' = IF delRun = 1 THEN { r \in ResourceTypes : present[r] }
                                  ELSE leftRun1
    /\ delpc' = "start"
    /\ ri' = 0
    /\ delOrder' = << >>
    /\ delConfirmed' = {}
    /\ declined' = FALSE
    /\ delResult' = "none"
    /\ UNCHANGED <<delNs, hasCF, present, nsPresent, dnsRecord>>
    /\ DeleteFrame

(* The application is deployed, wholly or in part, in the namespace the    *)
(* user will select.                                                       *)
InitDelete ==
    /\ PipelineIdle
    /\ DomainIdle
    /\ RetryIdle
    /\ ProbesIdle
    /\ DiagIdle
    /\ HealthIdle
    /\ CloudflareIdle
    /\ delRun = 1
    /\ delpc = "start"
    /\ delNs \in {"default", "app-namespace"}
    /\ hasCF \in BOOLEAN
    /\ ri = 0
    /\ present \in [ResourceTypes -> BOOLEAN]
    /\ nsPresent = TRUE
    /\ dnsRecord \in BOOLEAN
    /\ delOrder = << >>
    /\ delConfirmed = {}
    /\ declined = FALSE
    /\ delResult = "none"
    /\ attemptsRun1 = {}
    /\ leftRun1 = {}

NextDelete ==
    \/ Delete_ListNamespaces
    \/ Delete_ListDeployments
    \/ Delete_Confirm
    \/ Delete_Resource
    \/ Delete_Namespace
    \/ Delete_DNS
    \/ Delete_Rerun

SpecDelete == InitDelete /\ [][NextDelete]_vars

TypeOKDelete ==
    /\ delRun \in 1..MaxRuns
    /\ delpc \in {"start", "listDeployments", "confirm", "resources",
                   "namespace", "dns", "done"}
    /\ delNs \in {"default", "app-namespace"}
    /\ hasCF \in BOOLEAN
    /\ ri \in 0..(Len(resources) + 1)
    /\ present \in [ResourceTypes -> BOOLEAN]
    /\ nsPresent \in BOOLEAN
    /\ dnsRecord \in BOOLEAN
    /\ Range(delOrder) \subseteq ResourceTypes \cup {"namespace", "dns"}
    /\ delConfirmed \subseteq {"resources", "namespace", "dns"}
    /\ declined \in BOOLEAN
    /\ delResult \in {"none", "returned", "failed"}
    /\ attemptsRun1 \subseteq ResourceTypes \cup {"namespace", "dns"}
    /\ leftRun1 \subseteq ResourceTypes

(* C25: when the first invocation attempted the four deletions and left    *)
(* some of the resources behind (a timeout, an error), a second invocation *)
(* that ends without an error, and in which the user declined nothing,     *)
(* has attempted the four deletions again.                                 *)
C25_RerunRepeatsAttempts ==
    (/\ delRun = 2
     /\ delpc = "done"
     /\ delResult = "returned"
     /\ ~declined
     /\ ResourceTypes \subseteq attemptsRun1
     /\ leftRun1 # {})
        => ResourceTypes \subseteq Range(delOrder)

(* C26: the deletions an invocation attempts are in the order deployment,  *)
(* service, ingress, autoscaler, then the namespace, then the DNS record:  *)
(* the namespace deletion comes after the four attempts, the DNS deletion  *)
(* after the namespace step; the namespace and the DNS record are deleted  *)
(* only after their own confirmation (and the resources after theirs), and *)
(* the namespace default is never deleted.                                 *)
C26_DeletionOrder ==
    /\ \E n \in 0..Len(resources) :
          \/ delOrder = SubSeq(resources, 1, n)
          \/ /\ n = Len(resources)
             /\ delOrder \in {resources \o <<"namespace">>,
                               resources \o <<"dns">>,
                               resources \o <<"namespace", "dns">>}
    /\ "dns" \in Range(delOrder) => delpc = "done"
    /\ "namespace" \in Range(delOrder) => delpc \in {"dns", "done"}
    /\ delOrder # << >> => "resources" \in delConfirmed
    /\ "namespace" \in Range(delOrder) => "namespace" \in delConfirmed
    /\ "dns" \in Range(delOrder) => "dns" \in delConfirmed
    /\ "namespace" \in Range(delOrder) => delNs # "default"

C26_Witness ==
    /\ delpc = "done"
    /\ delOrder = resources \o <<"namespace", "dns">>
    /\ present["ingress"]

-----------------------------------------------------------------------------
(* checkAppHealth(url, maxRetries), deploy.ts lines 279-311.  axios.get    *)
(* has validateStatus: () => true, so it resolves with any HTTP status and *)
(* rejects only when no response came (connection refused, timeout).       *)

Statuses == {200, 301, 399, 400, 404, 503}

(* Line 287.                                                               *)
Responding(status) == status >= 200 /\ status < 400

(* Lines 293-298: the 10 s sleep is in the catch block, so it follows a    *)
(* request that was rejected and is not the last; a response with status   *)
(* 400 or above goes to the next request at once.                          *)
SleepsAfter(rejected, i, n) == rejected /\ i < n - 1

HealthFrame == UNCHANGED <<pipeVars, domVars, retryVars, probeVars, diagVars,
                           delVars, cfVars>>

(* One iteration of the loop of lines 280-310.                             *)
CheckAppHealth_Request ==
    /\ hpc = "request"
    /\ hI < maxRetries
    /\ hRequests' = hRequests + 1
    /\ \E rejected \in BOOLEAN, status \in Statuses :
          IF ~rejected /\ Responding(status)
          THEN /\ hLast' = "responding"
               /\ hpc' = "done"
               /\ hResult' = "returned"
               /\ UNCHANGED <<hI, hSleeps>>
          ELSE /\ hLast' = IF rejected THEN "rejected" ELSE "errorStatus"
               /\ hSleeps' = IF SleepsAfter(rejected, hI, maxRetries)
                             THEN hSleeps + 1 ELSE hSleeps
               /\ hI' = hI + 1
               /\ UNCHANGED <<hpc, hResult>>
    /\ UNCHANGED maxRetries
    /\ HealthFrame

(* Line 310: the loop ran out and the function returns.                    *)
CheckAppHealth_Exhausted ==
    /\ hpc = "request"
    /\ hI = maxRetries
    /\ hpc' = "done"
    /\ hResult' = "returned"
    /\ UNCHANGED <<maxRetries, hI, hRequests, hSleeps, hLast>>
    /\ HealthFrame

InitHealth ==
    /\ PipelineIdle
    /\ DomainIdle
    /\ RetryIdle
    /\ ProbesIdle
    /\ DiagIdle
    /\ DeleteIdle
    /\ CloudflareIdle
    /\ hpc = "request"
    /\ maxRetries \in 0..MaxHealthRetries
    /\ hI = 0
    /\ hRequests = 0
    /\ hSleeps = 0
    /\ hLast = "none"
    /\ hResult = "none"

NextHealth ==
    \/ CheckAppHealth_Request
    \/ CheckAppHealth_Exhausted

SpecHealth == InitHealth /\ [][NextHealth]_vars

TypeOKHealth ==
    /\ hpc \in {"request", "done"}
    /\ maxRetries \in 0..MaxHealthRetries
    /\ hI \in 0..maxRetries
    /\ hRequests \in 0..maxRetries
    /\ hSleeps \in 0..maxRetries
    /\ hLast \in {"none", "responding", "rejected", "errorStatus"}
    /\ hResult \in {"none", "returned"}

(* C31: any two consecutive requests of checkAppHealth are separated by    *)
(* the 10 s sleep, whatever the first of them returned: while the loop is  *)
(* running there were as many sleeps as requests (one after each request   *)
(* that did not end the loop), and never fewer than requests - 1.          *)
C31_SleepBetweenRequests ==
    hSleeps >= hRequests - 1

DeletedNothing ==
    /\ present' = present
    /\ nsPresent' = nsPresent
    /\ dnsRecord' = dnsRecord
    /\ delOrder' = << >>

(* C38: no kubectl delete and no DNS record deletion is issued unless the  *)
(* user selected a deployment and answered the confirmation with yes; a    *)
(* run of the command in which that did not happen (nothing found, or      *)
(* cancelled) changes nothing in the cluster or in the zone.               *)
C38_NoDeletionWithoutConfirmation ==
    /\ [](delOrder # << >> => "resources" \in delConfirmed)
    /\ [](declined => delOrder = << >>)
    /\ [][ "resources" \notin delConfirmed' => DeletedNothing ]_vars

(* C38 witness: the user cancelled with the deployment found, and the      *)
(* command has ended with everything still in place.                       *)
C38_Witness ==
    /\ delpc = "done"
    /\ declined
    /\ delOrder = << >>
    /\ nsPresent
    /\ present["deployment"]

(* C39: nothing is created outside the cluster before configureAWS has    *)
(* found the cluster: no certificate request and no DNS record creation    *)
(* has been issued while the configureAWS step has not completed, so a run *)
(* that fails at configureAWS has created nothing.                         *)
C39_NothingCreatedBeforeClusterCheck ==
    /\ requested # {} => stepState["configureAWS"] = "completed"
    /\ failedStep = "configureAWS" => requested = {}

(***************************************************************************)
(* setupCloudflareDNS (aws-utils.ts lines 1376-1462) with the block of     *)
(* waitForIngressAndSetupDNS that calls it (lines 1782-1803), and          *)
(* deleteCloudflareRecord (lines 1805-1843), against the records that the  *)
(* zone holds under the hostname.  Each function is invoked twice.         *)
(***************************************************************************)
MaxRecords == 2

Contents == {"other", "alb"}

(* The target argument: the host name of the load balancer.                *)
Target == "alb"

RecordLists ==
    UNION { [1..n -> Contents] : n \in 0..MaxRecords }

(* The answers of POST dns_records: the record is created, or the create   *)
(* is refused because a record exists (code 81057), or the call fails      *)
(* otherwise (another error code, success: false, no response).            *)
PostAnswers(records) ==
    IF records = << >> THEN {"created", "failed"} ELSE {"exists", "failed"}

CloudflareFrame == UNCHANGED <<pipeVars, domVars, retryVars, probeVars,
                               diagVars, delVars, healthVars>>

CfReturn(result) ==
    /\ cfpc' = "done"
    /\ cfResult' = result

(* Lines 1377-1379 and 1806-1808: nothing is done without credentials.     *)
Cloudflare_Enter ==
    /\ cfpc = "start"
    /\ IF ~cfCreds
       THEN CfReturn("returned")
       ELSE /\ cfpc' = IF cfOp = "upsert" THEN "post" ELSE "list"
            /\ UNCHANGED cfResult
    /\ UNCHANGED <<cfOp, cfCreds, cfRecords, cfCalls, cfReport, cfCallNo,
                   cfDeleted>>
    /\ CloudflareFrame

(* Lines 1389-1412 and the catch at 1413-1414, 1447-1459.                  *)
setupCloudflareDNS_Post ==
    /\ cfpc = "post"
    /\ cfCalls' = Append(cfCalls, "POST")
    /\ \E reply \in PostAnswers(cfRecords) :
          CASE reply = "created" ->
                 /\ cfRecords' = <<Target>>
                 /\ CfReturn("returned")
            [] reply = "exists" ->
                 /\ cfpc' = "list"
                 /\ UNCHANGED <<cfRecords, cfResult>>
            [] OTHER ->
                 /\ CfReturn("threw")
                 /\ UNCHANGED cfRecords
    /\ UNCHANGED <<cfOp, cfCreds, cfReport, cfCallNo, cfDeleted>>
    /\ CloudflareFrame

(* Lines 1416-1426 and 1815-1828: GET dns_records?name=hostname.  A failed *)
(* call is caught (1444-1446, 1840-1842); an empty list ends the function. *)
Cloudflare_List ==
    /\ cfpc = "list"
    /\ cfCalls' = Append(cfCalls, "GET")
    /\ \E listOk \in BOOLEAN, listed \in {cfRecords, << >>} :
          IF listOk /\ listed # << >>
          THEN /\ cfpc' = IF cfOp = "upsert" THEN "put" ELSE "delete"
               /\ UNCHANGED cfResult
          ELSE CfReturn("returned")
    /\ UNCHANGED <<cfOp, cfCreds, cfRecords, cfReport, cfCallNo, cfDeleted>>
    /\ CloudflareFrame

(* Lines 1427-1446: PUT on the first listed record; a failure is caught.   *)
setupCloudflareDNS_Put ==
    /\ cfpc = "put"
    /\ cfCalls' = Append(cfCalls, "PUT")
    /\ \E putOk \in BOOLEAN :
          cfRecords' = IF putOk THEN [cfRecords EXCEPT ![1] = Target]
                                ELSE cfRecords
    /\ CfReturn("returned")
    /\ UNCHANGED <<cfOp, cfCreds, cfReport, cfCallNo, cfDeleted>>
    /\ CloudflareFrame

(* Lines 1830-1842: DELETE of the first listed record; a failure is        *)
(* caught.                                                                 *)
deleteCloudflareRecord_Delete ==
    /\ cfpc = "delete"
    /\ cfCalls' = Append(cfCalls, "DELETE")
    /\ \E deleteOk \in BOOLEAN :
          /\ cfRecords' = IF deleteOk THEN Tail(cfRecords) ELSE cfRecords
          /\ cfDeleted' = (cfDeleted \/ (deleteOk /\ cfCallNo = 1))
    /\ CfReturn("returned")
    /\ UNCHANGED <<cfOp, cfCreds, cfReport, cfCallNo>>
    /\ CloudflareFrame

(* Lines 1784-1802 of waitForIngressAndSetupDNS: 'DNS configuration        *)
(* completed!' after a normal return, the manual instructions after an     *)
(* error.                                                                  *)
WaitForIngressAndSetupDNS_Report ==
    /\ cfpc = "done"
    /\ cfOp = "upsert"
    /\ cfReport = "none"
    /\ cfReport' = IF cfResult = "returned" THEN "completed" ELSE "manual"
    /\ UNCHANGED <<cfpc, cfOp, cfCreds, cfRecords, cfCalls, cfResult,
                   cfCallNo, cfDeleted>>
    /\ CloudflareFrame

(* The function is called a second time with the same configuration.       *)
Cloudflare_Again ==
    /\ cfpc = "done"
    /\ cfCallNo = 1
    /\ cfOp = "upsert" => cfReport # "none"
    /\ cfCallNo' = 2
    /\ cfpc' = "start"
    /\ cfCalls' = << >>
    /\ cfResult' = "none"
    /\ cfReport' = "none"
    /\ UNCHANGED <<cfOp, cfCreds, cfRecords, cfDeleted>>
    /\ CloudflareFrame

InitCloudflare ==
    /\ PipelineIdle
    /\ DomainIdle
    /\ RetryIdle
    /\ ProbesIdle
    /\ DiagIdle
    /\ DeleteIdle
    /\ HealthIdle
    /\ cfpc = "start"
    /\ cfOp \in {"upsert", "delete"}
    /\ cfCreds \in BOOLEAN
    /\ cfRecords \in RecordLists
    /\ cfCalls = << >>
    /\ cfResult = "none"
    /\ cfReport = "none"
    /\ cfCallNo = 1
    /\ cfDeleted = FALSE

NextCloudflare ==
    \/ Cloudflare_Enter
    \/ setupCloudflareDNS_Post
    \/ Cloudflare_List
    \/ setupCloudflareDNS_Put
    \/ deleteCloudflareRecord_Delete
    \/ WaitForIngressAndSetupDNS_Report
    \/ Cloudflare_Again

SpecCloudflare == InitCloudflare /\ [][NextCloudflare]_vars

TypeOKCloudflare ==
    /\ cfpc \in {"idle", "start", "post", "list", "put", "delete", "done"}
    /\ cfOp \in {"none", "upsert", "delete"}
    /\ cfCreds \in BOOLEAN
    /\ cfRecords \in RecordLists
    /\ Len(cfCalls) <= 3
    /\ cfResult \in {"none", "returned", "threw"}
    /\ cfReport \in {"none", "completed", "manual"}
    /\ cfCallNo \in 1..2
    /\ cfDeleted \in BOOLEAN

Calls(kind) == Cardinality({ k \in 1..Len(cfCalls) : cfCalls[k] = kind })

(* C36: setupCloudflareDNS with credentials returns normally only if the   *)
(* record of the hostname now points to the target, and                    *)
(* waitForIngressAndSetupDNS reports the DNS configuration as completed    *)
(* only when the record is set.                                            *)
C36_ReturnsOnlyWhenRecordSet ==
    (cfOp = "upsert" /\ cfCreds
        /\ (cfResult = "returned" \/ cfReport = "completed")) =>
        (cfRecords # << >> /\ cfRecords[1] = Target)

(* C37: deleteCloudflareRecord issues no delete call without credentials   *)
(* or when no record is listed and one delete call otherwise, never        *)
(* throws, and issues no call that changes the zone when it is called      *)
(* again after a deletion that succeeded.                                  *)
C37_DeleteIfExists ==
    cfOp = "delete" =>
        /\ Calls("DELETE") <= 1
        /\ ~cfCreds => cfCalls = << >>
        /\ cfResult # "threw"
        /\ cfCalls # << >> => cfCalls[1] = "GET"
        /\ (cfCallNo = 2 /\ cfDeleted) => Calls("DELETE") = 0

(***************************************************************************)
(* The four wait loops side by side: the node wait and the webhook wait of *)
(* the pipeline, the certificate waits of waitForIngressAndSetupDNS and    *)
(* checkAppHealth.                                                         *)
(***************************************************************************)
InitLoops == Init \/ InitIngress \/ InitHealth

NextLoops == Next \/ NextIngress \/ NextHealth

SpecLoops == InitLoops /\ [][NextLoops]_vars

LoopBounds ==
    /\ nodeI <= NodeWaitPolls
    /\ errorMsg = "Nodes did not become ready" => ~nodesReadySeen
    /\ wi <= WebhookWaitSeconds \div WebhookPollSeconds
    /\ wpolls <= CertWaitRetries
    /\ dpc = "cert.wait" /\ waitRetries = 0 =>
          ~validated /\ wpolls = CertWaitRetries
    /\ hRequests <= maxRetries
    /\ hLast = "responding" => hpc = "done"
    /\ hpc = "done" => hResult = "returned"

LoopEnds ==
    /\ pc = "nodes.wait" /\ pc' # "nodes.wait" =>
          /\ (errorMsg' = "Nodes did not become ready") <=> ~nodesReadySeen'
          /\ ~nodesReadySeen' => nodeI = NodeWaitPolls
    /\ pc = "alb.webhookWait"
          /\ wi = WebhookWaitSeconds \div WebhookPollSeconds =>
          whResult' = "false" /\ outcome' = outcome
    /\ dpc = "cert.wait" /\ waitRetries = 0 =>
          httpsCmds' = httpsCmds /\ ~validated'

(* C35: the wait loops are bounded and have a defined outcome when they    *)
(* run out.  The node wait makes at most 60 probes and ends in the 'Nodes  *)
(* did not become ready' error exactly when no probe saw a ready node; the *)
(* webhook wait makes at most floor(maxWaitSeconds / 3) iterations and     *)
(* then answers false without an error; a certificate wait makes at most   *)
(* 60 polls and then leaves the HTTPS annotations alone; checkAppHealth    *)
(* makes at most maxRetries requests, stops at the first response with a   *)
(* status in [200, 400) and always returns.                                *)
C35_WaitLoopsBounded == []LoopBounds /\ [][LoopEnds]_vars

(* C35 witness: the node wait ran out after its 60 probes and threw.       *)
C35_Witness ==
    /\ failedStep = "checkAndEnsureNodes"
    /\ errorMsg = "Nodes did not become ready"
    /\ ~nodesReadySeen

====
